---- MODULE Spec2Model ----
(***************************************************************************)
(* Model of the 6502 execution engine of src/src/cpu.rs (MyCPU) together   *)
(* with the opcode table of src/src/opcodes.rs.                            *)
(*                                                                         *)
(* The register file is modelled field by field.  Memory is the array      *)
(* `memory: [u8; 0xFFFF]`: it is kept as the function of its non-zero      *)
(* cells (every other index below MemSize holds 0, as after new()), an     *)
(* index of MemSize or more is out of bounds and makes the access panic.   *)
(* A panic is modelled as the terminal phase "panicked" together with the  *)
(* message of the panic; the state left behind is the one the unwinding    *)
(* started from.                                                           *)
(***************************************************************************)
EXTENDS Integers, Naturals, Sequences, FiniteSets, TLC

(***************************************************************************)
(* bitflags! CpuFlags                                                      *)
(***************************************************************************)
CARRY == \h01
ZERO == \h02
INTERRUPT_DISABLE == \h04
DECIMAL_MODE == \h08
BREAK == \h10
BREAK2 == \h20
OVERFLOW == \h40
NEGATIVE == \h80

STACK_AREA == \h0100
STACK_RESET == \hFF

\* length of the array `memory: [u8; 0xFFFF]`
MemSize == \hFFFF
\* address `load` copies the program to, and the initial program counter
LoadAddress == \h8000
\* address of the reset vector
ResetVector == \hFFFC

U8 == 256
U16 == 65536

(***************************************************************************)
(* Bounds of the model                                                     *)
(***************************************************************************)
\* iterations of the execution loop that are followed in one run
MaxSteps == 3

(***************************************************************************)
(* u8 / u16 bit operations                                                 *)
(***************************************************************************)
RECURSIVE bitand(_, _)
bitand(a, b) ==
  IF a = 0 \/ b = 0 THEN 0
  ELSE ((a % 2) * (b % 2)) + (2 * bitand(a \div 2, b \div 2))

RECURSIVE bitor(_, _)
bitor(a, b) ==
  IF a = 0 THEN b
  ELSE IF b = 0 THEN a
  ELSE (IF a % 2 = 1 \/ b % 2 = 1 THEN 1 ELSE 0) + (2 * bitor(a \div 2, b \div 2))

RECURSIVE bitxor(_, _)
bitxor(a, b) ==
  IF a = 0 THEN b
  ELSE IF b = 0 THEN a
  ELSE ((a + b) % 2) + (2 * bitxor(a \div 2, b \div 2))

wrapping_add(a, b, w) == (a + b) % w
wrapping_sub(a, b, w) == (a + w - b) % w
wrapping_neg(a) == (U8 - a) % U8
rotate_left(a) == ((a * 2) % U8) + (a \div 128)
rotate_right(a) == (a \div 2) + ((a % 2) * 128)

(***************************************************************************)
(* CpuFlags operations (bitflags)                                          *)
(***************************************************************************)
contains(s, f) == (s \div f) % 2 = 1
insert(s, f) == IF contains(s, f) THEN s ELSE s + f
remove(s, f) == IF contains(s, f) THEN s - f ELSE s
set(s, f, v) == IF v THEN insert(s, f) ELSE remove(s, f)

(***************************************************************************)
(* Panic messages                                                          *)
(***************************************************************************)
IndexOutOfBounds == "index out of bounds"
AddOverflow == "attempt to add with overflow"
SubOverflow == "attempt to subtract with overflow"
NotRecognized == "OpCode is not recognized"
NotSupported == "mode is not supported"
NotYetImplemented == "not yet implemented"

(***************************************************************************)
(* opcodes.rs: the table, one tuple <<code, mnemonic, len, cycles, mode>>  *)
(* per OpCode::new, in source order                                        *)
(***************************************************************************)
CPU_OPS_CODES == <<
  <<\h69, "ADC", 2, 2, "Immediate">>, <<\h29, "AND", 2, 2, "Immediate">>,
  <<\h0A, "ASL", 2, 2, "Immediate">>, <<\h90, "BCC", 2, 2, "Immediate">>,
  <<\hB0, "BCS", 2, 2, "Immediate">>, <<\hF0, "BEQ", 2, 2, "Immediate">>,
  <<\h24, "BIT", 2, 2, "Immediate">>, <<\h30, "BMI", 2, 2, "Immediate">>,
  <<\hD0, "BNE", 2, 2, "Immediate">>, <<\h10, "BPL", 2, 2, "Immediate">>,
  <<\h00, "BRK", 1, 7, "NoneAddressing">>, <<\h50, "BVC", 2, 2, "Immediate">>,
  <<\h70, "BVS", 2, 2, "Immediate">>, <<\h18, "CLC", 1, 2, "Immediate">>,
  <<\hD8, "CLD", 1, 2, "Immediate">>, <<\h58, "CLI", 1, 2, "Immediate">>,
  <<\hB8, "CLV", 1, 2, "Immediate">>, <<\hC9, "CMP", 2, 2, "Immediate">>,
  <<\hE0, "CPX", 2, 2, "Immediate">>, <<\hC0, "CPY", 2, 2, "Immediate">>,
  <<\hC6, "DEC", 2, 5, "ZeroPage">>, <<\hD6, "DEC", 2, 6, "ZeroPage_X">>,
  <<\hCE, "DEC", 3, 6, "Absolute">>, <<\hDE, "DEC", 3, 7, "Absolute_X">>,
  <<\hCA, "DEX", 1, 2, "Immediate">>, <<\h88, "DEY", 1, 2, "Immediate">>,
  <<\h49, "EOR", 2, 2, "Immediate">>, <<\hE6, "INC", 2, 5, "ZeroPage">>,
  <<\hF6, "INC", 2, 6, "ZeroPage_X">>, <<\hEE, "INC", 3, 6, "Absolute">>,
  <<\hFE, "INC", 3, 7, "Absolute_X">>, <<\hE8, "INX", 1, 2, "NoneAddressing">>,
  <<\hC8, "INY", 1, 2, "NoneAddressing">>, <<\h4C, "JMP", 1, 2, "NoneAddressing">>,
  <<\h20, "JSR", 1, 2, "NoneAddressing">>, <<\hA9, "LDA", 2, 2, "Immediate">>,
  <<\hA5, "LDA", 2, 3, "ZeroPage">>, <<\hB5, "LDA", 2, 4, "ZeroPage_X">>,
  <<\hAD, "LDA", 3, 4, "Absolute">>, <<\hBD, "LDA", 3, 4, "Absolute_X">>,
  <<\hB9, "LDA", 3, 4, "Absolute_Y">>, <<\hA1, "LDA", 2, 6, "Indirect_X">>,
  <<\hB1, "LDA", 2, 5, "Indirect_Y">>, <<\hA2, "LDX", 2, 2, "Immediate">>,
  <<\hA6, "LDX", 2, 3, "ZeroPage">>, <<\hB6, "LDX", 2, 4, "ZeroPage_Y">>,
  <<\hAE, "LDX", 3, 4, "Absolute">>, <<\hBE, "LDX", 3, 4, "Absolute_Y">>,
  <<\hA0, "LDY", 2, 2, "Immediate">>, <<\hA4, "LDY", 2, 3, "ZeroPage">>,
  <<\hB4, "LDY", 2, 4, "ZeroPage_X">>, <<\hAC, "LDY", 3, 4, "Absolute">>,
  <<\hBC, "LDY", 3, 4, "Absolute_X">>, <<\h4A, "LSR", 1, 2, "NoneAddressing">>,
  <<\hEA, "NOP", 1, 2, "NoneAddressing">>, <<\h09, "ORA", 1, 2, "NoneAddressing">>,
  <<\h48, "PHA", 1, 3, "NoneAddressing">>, <<\h08, "PHP", 1, 3, "NoneAddressing">>,
  <<\h68, "PLA", 1, 4, "NoneAddressing">>, <<\h28, "PLP", 1, 4, "NoneAddressing">>,
  <<\h2A, "ROL", 1, 2, "NoneAddressing">>, <<\h6A, "ROR", 1, 2, "NoneAddressing">>,
  <<\h40, "RTI", 1, 2, "NoneAddressing">>, <<\h60, "RTS", 1, 2, "NoneAddressing">>,
  <<\hE9, "SBC", 1, 2, "NoneAddressing">>, <<\h38, "SEC", 1, 2, "NoneAddressing">>,
  <<\hF8, "SED", 1, 2, "NoneAddressing">>, <<\h78, "SEI", 1, 2, "NoneAddressing">>,
  <<\h85, "STA", 2, 3, "ZeroPage">>, <<\h95, "STA", 2, 4, "ZeroPage_X">>,
  <<\h8D, "STA", 3, 4, "Absolute">>, <<\h9D, "STA", 3, 5, "Absolute_X">>,
  <<\h99, "STA", 3, 5, "Absolute_Y">>, <<\h81, "STA", 2, 6, "Indirect_X">>,
  <<\h91, "STA", 2, 6, "Indirect_Y">>, <<\h86, "STX", 2, 3, "ZeroPage">>,
  <<\h96, "STX", 2, 4, "ZeroPage_Y">>, <<\h8E, "STX", 3, 4, "Absolute">>,
  <<\h84, "STY", 2, 3, "ZeroPage">>, <<\h94, "STY", 2, 4, "ZeroPage_X">>,
  <<\h8C, "STY", 3, 4, "Absolute">>, <<\hAA, "TAX", 1, 2, "NoneAddressing">>,
  <<\hA8, "TAY", 1, 2, "NoneAddressing">>, <<\hBA, "TSX", 1, 2, "NoneAddressing">>,
  <<\h8A, "TXA", 1, 2, "NoneAddressing">>, <<\h9A, "TXS", 1, 2, "NoneAddressing">>,
  <<\h98, "TYA", 1, 2, "NoneAddressing">>
>>

OpCode(t) == [code |-> t[1], mnemonic |-> t[2], len |-> t[3], cycles |-> t[4], mode |-> t[5]]

\* the HashMap with JSR given the length of its three bytes
OPCODES_MAP_jsr_len_3 ==
  LET codes == {CPU_OPS_CODES[i][1] : i \in DOMAIN CPU_OPS_CODES}
      last(k) == CHOOSE i \in DOMAIN CPU_OPS_CODES :
                   /\ CPU_OPS_CODES[i][1] = k
                   /\ \A j \in DOMAIN CPU_OPS_CODES : CPU_OPS_CODES[j][1] = k => j <= i
  IN [k \in codes |-> IF k = \h20
                      THEN [OpCode(CPU_OPS_CODES[last(k)]) EXCEPT !.len = 3]
                      ELSE OpCode(CPU_OPS_CODES[last(k)])]

\* the HashMap built by inserting the table entries in order
OPCODES_MAP ==
  LET codes == {CPU_OPS_CODES[i][1] : i \in DOMAIN CPU_OPS_CODES}
      last(k) == CHOOSE i \in DOMAIN CPU_OPS_CODES :
                   /\ CPU_OPS_CODES[i][1] = k
                   /\ \A j \in DOMAIN CPU_OPS_CODES : CPU_OPS_CODES[j][1] = k => j <= i
  IN [k \in codes |-> OpCode(CPU_OPS_CODES[last(k)])]

VARIABLES
  register_a, register_x, register_y,   \* pub u8 fields of MyCPU
  status,                               \* pub status: CpuFlags, as its bits
  program_counter,                      \* pub u16
  stack_pointer,                        \* pub u8
  memory,                               \* the non-zero cells of the array
  overflow_checks,                      \* build profile: TRUE panics on integer overflow, FALSE wraps
  phase,                                \* "new", "setup", "loaded", "reset", "running", "halted", "panicked"
  code,                                 \* local `code` of the last loop iteration
  program_counter_state,                \* local `program_counter_state` of the last iteration
  branched,                             \* the last iteration ran the body of `if condition` in branch
  panic_msg,                            \* what the panic reported
  steps,                                \* loop iterations begun in this run
  callbacks,                            \* the CPU as each invocation of the callback in this run was given it
  prev,                                 \* the CPU as it was when the last iteration began
  log,                                  \* the CPU as it was when each iteration of this run began
  call                                  \* the host's last call: its name, argument and return value

cpu_vars == <<register_a, register_x, register_y, status, program_counter,
              stack_pointer, memory>>
vars == <<register_a, register_x, register_y, status, program_counter,
          stack_pointer, memory, overflow_checks, phase, code,
          program_counter_state, branched, panic_msg, steps, callbacks, prev,
          log, call>>

(***************************************************************************)
(* The CPU as a value: what `self` is inside a method.  `fault` is the     *)
(* panic under way ("" when none), `returned` says the loop has hit its    *)
(* `return`, `taken` that branch ran its body.                             *)
(***************************************************************************)
Self ==
  [register_a |-> register_a, register_x |-> register_x, register_y |-> register_y,
   status |-> status, program_counter |-> program_counter,
   stack_pointer |-> stack_pointer, memory |-> memory,
   overflow_checks |-> overflow_checks,
   fault |-> "", returned |-> FALSE, taken |-> FALSE]

Snapshot(c) ==
  [register_a |-> c.register_a, register_x |-> c.register_x, register_y |-> c.register_y,
   status |-> c.status, program_counter |-> c.program_counter,
   stack_pointer |-> c.stack_pointer, memory |-> c.memory]

Fail(c, why) == IF c.fault = "" THEN [c EXCEPT !.fault = why] ELSE c
Val(v) == [fault |-> "", val |-> v]
Err(why) == [fault |-> why, val |-> 0]

\* `let v = ...;` followed by the rest of the block: v is evaluated once
bind(v, rest(_)) == CHOOSE y \in {rest(x) : x \in {v}} : TRUE

(***************************************************************************)
(* impl MyMem for MyCPU, and the provided u16 methods of the trait         *)
(***************************************************************************)
Cell(m, addr) == IF addr \in DOMAIN m THEN m[addr] ELSE 0
Store(m, addr, data) ==
  IF data = 0 THEN [k \in DOMAIN m \ {addr} |-> m[k]]
  ELSE [k \in DOMAIN m \cup {addr} |-> IF k = addr THEN data ELSE m[k]]

mem_read(c, addr) ==
  IF addr < MemSize THEN Val(Cell(c.memory, addr)) ELSE Err(IndexOutOfBounds)

mem_write(c, addr, data) ==
  IF c.fault # "" THEN c
  ELSE IF addr < MemSize THEN [c EXCEPT !.memory = Store(@, addr, data)]
  ELSE Fail(c, IndexOutOfBounds)

\* `pos + 1` is evaluated after mem_read(pos) has succeeded
add_u16(c, a, b) ==
  IF a + b < U16 THEN Val(a + b)
  ELSE IF c.overflow_checks THEN Err(AddOverflow) ELSE Val((a + b) % U16)

mem_read_u16(c, pos) ==
  bind(mem_read(c, pos), LAMBDA lo :
    IF lo.fault # "" THEN lo
    ELSE bind(add_u16(c, pos, 1), LAMBDA nxt :
      IF nxt.fault # "" THEN nxt
      ELSE bind(mem_read(c, nxt.val), LAMBDA hi :
        IF hi.fault # "" THEN hi ELSE Val(hi.val * 256 + lo.val))))

mem_write_u16(c, pos, data) ==
  bind(mem_write(c, pos, data % 256), LAMBDA c1 :
    IF c1.fault # "" THEN c1
    ELSE bind(add_u16(c, pos, 1), LAMBDA nxt :
      IF nxt.fault # "" THEN Fail(c1, nxt.fault)
      ELSE mem_write(c1, nxt.val, data \div 256)))

(***************************************************************************)
(* get_operand_address                                                     *)
(***************************************************************************)
\* the reads of the two indirect modes lie in page zero, inside the array
\* get_operand_address carrying ZeroPage_X into page one
get_operand_address_carrying(c, mode) ==
  CASE mode = "Immediate" -> Val(c.program_counter)
    [] mode = "ZeroPage" -> mem_read(c, c.program_counter)
    [] mode = "Absolute" -> mem_read_u16(c, c.program_counter)
    [] mode = "ZeroPage_X" ->
         bind(mem_read(c, c.program_counter), LAMBDA pos :
           IF pos.fault # "" THEN pos ELSE Val(wrapping_add(pos.val, c.register_x, U16)))
    [] mode = "ZeroPage_Y" ->
         bind(mem_read(c, c.program_counter), LAMBDA pos :
           IF pos.fault # "" THEN pos ELSE Val(wrapping_add(pos.val, c.register_y, U8)))
    [] mode = "Absolute_X" ->
         bind(mem_read_u16(c, c.program_counter), LAMBDA base :
           IF base.fault # "" THEN base ELSE Val(wrapping_add(base.val, c.register_x, U16)))
    [] mode = "Absolute_Y" ->
         bind(mem_read_u16(c, c.program_counter), LAMBDA base :
           IF base.fault # "" THEN base ELSE Val(wrapping_add(base.val, c.register_y, U16)))
    [] mode = "Indirect_X" ->
         bind(mem_read(c, c.program_counter), LAMBDA base :
           IF base.fault # "" THEN base
           ELSE bind(wrapping_add(base.val, c.register_x, U8), LAMBDA ptr :
                  Val((Cell(c.memory, wrapping_add(ptr, 1, U8)) * 256)
                      + Cell(c.memory, ptr))))
    [] mode = "Indirect_Y" ->
         bind(mem_read(c, c.program_counter), LAMBDA base :
           IF base.fault # "" THEN base
           ELSE bind((Cell(c.memory, wrapping_add(base.val, 1, U8)) * 256)
                       + Cell(c.memory, base.val), LAMBDA deref_base :
                  Val(wrapping_add(deref_base, c.register_y, U16))))
    [] mode = "NoneAddressing" -> Err(NotSupported)

\* get_operand_address reading the high byte of the Indirect_Y pointer at
\* base + 1 without the wrap
get_operand_address_crossing(c, mode) ==
  CASE mode = "Immediate" -> Val(c.program_counter)
    [] mode = "ZeroPage" -> mem_read(c, c.program_counter)
    [] mode = "Absolute" -> mem_read_u16(c, c.program_counter)
    [] mode = "ZeroPage_X" ->
         bind(mem_read(c, c.program_counter), LAMBDA pos :
           IF pos.fault # "" THEN pos ELSE Val(wrapping_add(pos.val, c.register_x, U8)))
    [] mode = "ZeroPage_Y" ->
         bind(mem_read(c, c.program_counter), LAMBDA pos :
           IF pos.fault # "" THEN pos ELSE Val(wrapping_add(pos.val, c.register_y, U8)))
    [] mode = "Absolute_X" ->
         bind(mem_read_u16(c, c.program_counter), LAMBDA base :
           IF base.fault # "" THEN base ELSE Val(wrapping_add(base.val, c.register_x, U16)))
    [] mode = "Absolute_Y" ->
         bind(mem_read_u16(c, c.program_counter), LAMBDA base :
           IF base.fault # "" THEN base ELSE Val(wrapping_add(base.val, c.register_y, U16)))
    [] mode = "Indirect_X" ->
         bind(mem_read(c, c.program_counter), LAMBDA base :
           IF base.fault # "" THEN base
           ELSE bind(wrapping_add(base.val, c.register_x, U8), LAMBDA ptr :
                  Val((Cell(c.memory, wrapping_add(ptr, 1, U8)) * 256)
                      + Cell(c.memory, ptr))))
    [] mode = "Indirect_Y" ->
         bind(mem_read(c, c.program_counter), LAMBDA base :
           IF base.fault # "" THEN base
           ELSE bind((Cell(c.memory, base.val + 1) * 256)
                       + Cell(c.memory, base.val), LAMBDA deref_base :
                  Val(wrapping_add(deref_base, c.register_y, U16))))
    [] mode = "NoneAddressing" -> Err(NotSupported)

get_operand_address(c, mode) ==
  CASE mode = "Immediate" -> Val(c.program_counter)
    [] mode = "ZeroPage" -> mem_read(c, c.program_counter)
    [] mode = "Absolute" -> mem_read_u16(c, c.program_counter)
    [] mode = "ZeroPage_X" ->
         bind(mem_read(c, c.program_counter), LAMBDA pos :
           IF pos.fault # "" THEN pos ELSE Val(wrapping_add(pos.val, c.register_x, U8)))
    [] mode = "ZeroPage_Y" ->
         bind(mem_read(c, c.program_counter), LAMBDA pos :
           IF pos.fault # "" THEN pos ELSE Val(wrapping_add(pos.val, c.register_y, U8)))
    [] mode = "Absolute_X" ->
         bind(mem_read_u16(c, c.program_counter), LAMBDA base :
           IF base.fault # "" THEN base ELSE Val(wrapping_add(base.val, c.register_x, U16)))
    [] mode = "Absolute_Y" ->
         bind(mem_read_u16(c, c.program_counter), LAMBDA base :
           IF base.fault # "" THEN base ELSE Val(wrapping_add(base.val, c.register_y, U16)))
    [] mode = "Indirect_X" ->
         bind(mem_read(c, c.program_counter), LAMBDA base :
           IF base.fault # "" THEN base
           ELSE bind(wrapping_add(base.val, c.register_x, U8), LAMBDA ptr :
                  Val((Cell(c.memory, wrapping_add(ptr, 1, U8)) * 256)
                      + Cell(c.memory, ptr))))
    [] mode = "Indirect_Y" ->
         bind(mem_read(c, c.program_counter), LAMBDA base :
           IF base.fault # "" THEN base
           ELSE bind((Cell(c.memory, wrapping_add(base.val, 1, U8)) * 256)
                       + Cell(c.memory, base.val), LAMBDA deref_base :
                  Val(wrapping_add(deref_base, c.register_y, U16))))
    [] mode = "NoneAddressing" -> Err(NotSupported)

\* the pair `let addr = self.get_operand_address(mode); let data = self.mem_read(addr);`
operand(c, mode) ==
  bind(get_operand_address(c, mode), LAMBDA addr :
    IF addr.fault # "" THEN [fault |-> addr.fault, addr |-> 0, val |-> 0]
    ELSE bind(mem_read(c, addr.val), LAMBDA data :
           [fault |-> data.fault, addr |-> addr.val, val |-> data.val]))

\* update_zero_and_negative_flags taking NEGATIVE from bit 6
update_flags_from_bit_6(c, result) ==
  [c EXCEPT !.status = set(set(@, ZERO, result = 0), NEGATIVE, bitand(result, \h40) # 0)]

update_zero_and_negative_flags(c, result) ==
  [c EXCEPT !.status = set(set(@, ZERO, result = 0), NEGATIVE, bitand(result, \h80) # 0)]

(***************************************************************************)
(* Stack engine                                                            *)
(***************************************************************************)
\* stack_push writing into page zero
stack_push_page_zero(c, data) ==
  bind(mem_write(c, c.stack_pointer, data), LAMBDA c1 :
    IF c1.fault # "" THEN c1
    ELSE [c1 EXCEPT !.stack_pointer = wrapping_sub(@, 1, U8)])

stack_push(c, data) ==
  bind(mem_write(c, STACK_AREA + c.stack_pointer, data), LAMBDA c1 :
    IF c1.fault # "" THEN c1
    ELSE [c1 EXCEPT !.stack_pointer = wrapping_sub(@, 1, U8)])

stack_push_u16(c, data) == stack_push(stack_push(c, data \div 256), data % 256)

\* the CPU after the pop, and the byte popped
stack_pop(c) ==
  bind(wrapping_add(c.stack_pointer, 1, U8), LAMBDA sp :
    [cpu |-> [c EXCEPT !.stack_pointer = sp],
     val |-> Cell(c.memory, STACK_AREA + sp)])

\* stack_pop_u16 taking the first byte popped as the high one
stack_pop_u16_high_first(c) ==
  bind(stack_pop(c), LAMBDA hi :
    bind(stack_pop(hi.cpu), LAMBDA lo :
      [cpu |-> lo.cpu, val |-> (hi.val * 256) + lo.val]))

stack_pop_u16(c) ==
  bind(stack_pop(c), LAMBDA lo :
    bind(stack_pop(lo.cpu), LAMBDA hi :
      [cpu |-> hi.cpu, val |-> (hi.val * 256) + lo.val]))
(***************************************************************************)
(* Instruction handlers                                                    *)
(***************************************************************************)
\* add_to_acc without the carry-in
add_to_acc_no_carry_in(c, data) ==
  bind(c.register_a + data, LAMBDA sum :
    bind(sum % U8, LAMBDA result :
      update_zero_and_negative_flags(
        [c EXCEPT !.status =
                    set(set(@, CARRY, sum > \hFF), OVERFLOW,
                        bitand(bitand(bitxor(data, result), bitxor(result, c.register_a)),
                               \h80) # 0),
                  !.register_a = result],
        result)))

add_to_acc(c, data) ==
  bind(c.register_a + data + (IF contains(c.status, CARRY) THEN 1 ELSE 0), LAMBDA sum :
    bind(sum % U8, LAMBDA result :
      update_zero_and_negative_flags(
        [c EXCEPT !.status =
                    set(set(@, CARRY, sum > \hFF), OVERFLOW,
                        bitand(bitand(bitxor(data, result), bitxor(result, c.register_a)),
                               \h80) # 0),
                  !.register_a = result],
        result)))

adc(c, mode) ==
  bind(operand(c, mode), LAMBDA o :
    IF o.fault # "" THEN Fail(c, o.fault) ELSE add_to_acc(c, o.val))

sbc(c, mode) ==
  bind(operand(c, mode), LAMBDA o :
    IF o.fault # "" THEN Fail(c, o.fault) ELSE add_to_acc(c, wrapping_neg(o.val)))

and(c, mode) ==
  bind(operand(c, mode), LAMBDA o :
    IF o.fault # "" THEN Fail(c, o.fault)
    ELSE bind(bitand(o.val, c.register_a), LAMBDA r :
           update_zero_and_negative_flags([c EXCEPT !.register_a = r], r)))

eor(c, mode) ==
  bind(operand(c, mode), LAMBDA o :
    IF o.fault # "" THEN Fail(c, o.fault)
    ELSE bind(bitxor(c.register_a, o.val), LAMBDA r :
           update_zero_and_negative_flags([c EXCEPT !.register_a = r], r)))

ora(c, mode) ==
  bind(operand(c, mode), LAMBDA o :
    IF o.fault # "" THEN Fail(c, o.fault)
    ELSE bind(bitor(c.register_a, o.val), LAMBDA r :
           update_zero_and_negative_flags([c EXCEPT !.register_a = r], r)))

asl(c, mode) ==
  IF mode = "NoneAddressing"
  THEN bind((c.register_a * 2) % U8, LAMBDA r :
         update_zero_and_negative_flags(
           [c EXCEPT !.status = set(@, CARRY, bitand(c.register_a, \h80) # 0),
                     !.register_a = r], r))
  ELSE bind(operand(c, mode), LAMBDA o :
         IF o.fault # "" THEN Fail(c, o.fault)
         ELSE bind((o.val * 2) % U8, LAMBDA r :
                update_zero_and_negative_flags(
                  mem_write([c EXCEPT !.status = set(@, CARRY, bitand(o.val, \h80) # 0)],
                            o.addr, r), r)))

lsr(c, mode) ==
  IF mode = "Immediate"
  THEN bind(c.register_a \div 2, LAMBDA r :
         update_zero_and_negative_flags(
           [c EXCEPT !.status = set(@, CARRY, bitand(c.register_a, \h01) = 1),
                     !.register_a = r], r))
  ELSE bind(operand(c, mode), LAMBDA o :
         IF o.fault # "" THEN Fail(c, o.fault)
         ELSE bind(o.val \div 2, LAMBDA r :
                update_zero_and_negative_flags(
                  mem_write([c EXCEPT !.status = set(@, CARRY, bitand(o.val, \h01) = 1)],
                            o.addr, r), r)))

highest_bit_set(v) == bitand(v, \h80) # 0
lowest_bit_set(v) == bitand(v, \h01) # 0

rol(c, mode) ==
  IF mode = "NoneAddressing"
  THEN bind(rotate_left(c.register_a), LAMBDA result :
         [update_zero_and_negative_flags(
            [c EXCEPT !.status = set(@, CARRY, highest_bit_set(c.register_a))], result)
          EXCEPT !.register_a = result])
  ELSE bind(operand(c, mode), LAMBDA o :
         IF o.fault # "" THEN Fail(c, o.fault)
         ELSE bind(rotate_left(o.val), LAMBDA result :
                mem_write(
                  [c EXCEPT !.status = set(set(@, CARRY, highest_bit_set(o.val)),
                                           NEGATIVE, result \div 128 = 1)],
                  o.addr, result)))

ror(c, mode) ==
  IF mode = "NoneAddressing"
  THEN bind(rotate_right(c.register_a), LAMBDA result :
         [update_zero_and_negative_flags(
            [c EXCEPT !.status = set(@, CARRY, lowest_bit_set(c.register_a))], result)
          EXCEPT !.register_a = result])
  ELSE bind(operand(c, mode), LAMBDA o :
         IF o.fault # "" THEN Fail(c, o.fault)
         ELSE bind(rotate_right(o.val), LAMBDA result :
                mem_write(
                  [c EXCEPT !.status = set(set(@, CARRY, lowest_bit_set(o.val)),
                                           NEGATIVE, result \div 128 = 1)],
                  o.addr, result)))

branch(c, condition) ==
  IF condition
  THEN bind(mem_read(c, c.program_counter), LAMBDA value :
         IF value.fault # "" THEN Fail([c EXCEPT !.taken = TRUE], value.fault)
         ELSE [c EXCEPT !.taken = TRUE,
                        !.program_counter =
                           wrapping_add(wrapping_add(@, 1, U16), value.val, U16)])
  ELSE c

bcc(c) == branch(c, ~contains(c.status, CARRY))
bcs(c) == branch(c, contains(c.status, CARRY))
beq(c) == branch(c, contains(c.status, ZERO))
bmi(c) == branch(c, contains(c.status, NEGATIVE))
bne(c) == branch(c, ~contains(c.status, ZERO))
bpl(c) == branch(c, ~contains(c.status, NEGATIVE))
bvc(c) == branch(c, ~contains(c.status, OVERFLOW))
\* bvs testing the flag of bmi
bvs_on_negative(c) == branch(c, contains(c.status, NEGATIVE))
bvs(c) == branch(c, contains(c.status, OVERFLOW))

bit(c, mode) ==
  bind(operand(c, mode), LAMBDA o :
    IF o.fault # "" THEN Fail(c, o.fault)
    ELSE [c EXCEPT !.status =
            set(set(set(@, ZERO, bitand(o.val, c.register_a) = 0),
                    OVERFLOW, bitand(o.val, \h40) # 0),
                NEGATIVE, bitand(o.val, \h80) # 0)])

clc(c) == [c EXCEPT !.status = remove(@, CARRY)]
cld(c) == [c EXCEPT !.status = remove(@, DECIMAL_MODE)]
cli(c) == [c EXCEPT !.status = remove(@, INTERRUPT_DISABLE)]
clv(c) == [c EXCEPT !.status = remove(@, OVERFLOW)]
sec(c) == [c EXCEPT !.status = insert(@, CARRY)]
sed(c) == [c EXCEPT !.status = insert(@, DECIMAL_MODE)]
sei(c) == [c EXCEPT !.status = insert(@, INTERRUPT_DISABLE)]

\* compare setting CARRY only when the reference is greater
compare_strict(c, mode, reference) ==
  bind(operand(c, mode), LAMBDA o :
    IF o.fault # "" THEN Fail(c, o.fault)
    ELSE update_zero_and_negative_flags(
           [c EXCEPT !.status = set(@, CARRY, reference > o.val)],
           wrapping_sub(reference, o.val, U8)))

compare(c, mode, reference) ==
  bind(operand(c, mode), LAMBDA o :
    IF o.fault # "" THEN Fail(c, o.fault)
    ELSE update_zero_and_negative_flags(
           [c EXCEPT !.status = set(@, CARRY, reference >= o.val)],
           wrapping_sub(reference, o.val, U8)))

cmp(c, mode) == compare(c, mode, c.register_a)
cpx(c, mode) == compare(c, mode, c.register_x)
cpy(c, mode) == compare(c, mode, c.register_y)

dec(c, mode) ==
  bind(operand(c, mode), LAMBDA o :
    IF o.fault # "" THEN Fail(c, o.fault)
    ELSE bind(wrapping_sub(o.val, 1, U8), LAMBDA new_value :
           update_zero_and_negative_flags(mem_write(c, o.addr, new_value), new_value)))

\* INC that stops at 0xFF
inc_saturating(c, mode) ==
  bind(operand(c, mode), LAMBDA o :
    IF o.fault # "" THEN Fail(c, o.fault)
    ELSE bind(IF o.val = \hFF THEN \hFF ELSE o.val + 1, LAMBDA new_value :
           update_zero_and_negative_flags(mem_write(c, o.addr, new_value), new_value)))

inc(c, mode) ==
  bind(operand(c, mode), LAMBDA o :
    IF o.fault # "" THEN Fail(c, o.fault)
    ELSE bind(wrapping_add(o.val, 1, U8), LAMBDA new_value :
           update_zero_and_negative_flags(mem_write(c, o.addr, new_value), new_value)))

dex(c) ==
  bind(wrapping_sub(c.register_x, 1, U8), LAMBDA r :
    update_zero_and_negative_flags([c EXCEPT !.register_x = r], r))

dey(c) ==
  bind(wrapping_sub(c.register_y, 1, U8), LAMBDA r :
    update_zero_and_negative_flags([c EXCEPT !.register_y = r], r))

inx(c) ==
  bind(wrapping_add(c.register_x, 1, U8), LAMBDA r :
    update_zero_and_negative_flags([c EXCEPT !.register_x = r], r))

iny(c) ==
  bind(wrapping_add(c.register_y, 1, U8), LAMBDA r :
    update_zero_and_negative_flags([c EXCEPT !.register_y = r], r))

jmp(c, mode) ==
  bind(mem_read_u16(c, c.program_counter), LAMBDA addr :
    IF addr.fault # "" THEN Fail(c, addr.fault)
    ELSE IF mode = "Absolute" THEN [c EXCEPT !.program_counter = addr.val]
    ELSE bind(IF bitand(addr.val, \h00FF) = \h00FF
              THEN bind(mem_read(c, addr.val), LAMBDA lo :
                     IF lo.fault # "" THEN lo
                     ELSE bind(mem_read(c, bitand(addr.val, \hFF00)), LAMBDA hi :
                            IF hi.fault # "" THEN hi
                            ELSE Val((hi.val * 256) + lo.val)))
              ELSE mem_read_u16(c, addr.val),
              LAMBDA indirect_addr :
                IF indirect_addr.fault # "" THEN Fail(c, indirect_addr.fault)
                ELSE [c EXCEPT !.program_counter = indirect_addr.val]))

\* jsr pushing the address of the next instruction
jsr_pushing_next(c) ==
  bind(add_u16(c, c.program_counter, 2), LAMBDA plus2 :
    IF plus2.fault # "" THEN Fail(c, plus2.fault)
    ELSE bind(stack_push_u16(c, plus2.val), LAMBDA c1 :
           IF c1.fault # "" THEN c1
           ELSE bind(mem_read_u16(c1, c1.program_counter), LAMBDA target :
                  IF target.fault # "" THEN Fail(c1, target.fault)
                  ELSE [c1 EXCEPT !.program_counter = target.val])))

\* `self.program_counter + 2 - 1`: the sum may overflow, the difference
\* underflows only after a wrapped sum
jsr(c) ==
  bind(add_u16(c, c.program_counter, 2), LAMBDA plus2 :
    IF plus2.fault # "" THEN Fail(c, plus2.fault)
    ELSE bind(stack_push_u16(c, wrapping_sub(plus2.val, 1, U16)), LAMBDA c1 :
           IF c1.fault # "" THEN c1
           ELSE bind(mem_read_u16(c1, c1.program_counter), LAMBDA target :
                  IF target.fault # "" THEN Fail(c1, target.fault)
                  ELSE [c1 EXCEPT !.program_counter = target.val])))

\* rts without the + 1
rts_without_increment(c) ==
  bind(stack_pop_u16(c), LAMBDA p : [p.cpu EXCEPT !.program_counter = p.val])

rts(c) ==
  bind(stack_pop_u16(c), LAMBDA p :
    bind(add_u16(c, p.val, 1), LAMBDA plus1 :
      IF plus1.fault # "" THEN Fail(p.cpu, plus1.fault)
      ELSE [p.cpu EXCEPT !.program_counter = plus1.val]))

lda(c, mode) ==
  bind(operand(c, mode), LAMBDA o :
    IF o.fault # "" THEN Fail(c, o.fault)
    ELSE update_zero_and_negative_flags([c EXCEPT !.register_a = o.val], o.val))

ldx(c, mode) ==
  bind(operand(c, mode), LAMBDA o :
    IF o.fault # "" THEN Fail(c, o.fault)
    ELSE update_zero_and_negative_flags([c EXCEPT !.register_x = o.val], o.val))

ldy(c, mode) ==
  bind(operand(c, mode), LAMBDA o :
    IF o.fault # "" THEN Fail(c, o.fault)
    ELSE update_zero_and_negative_flags([c EXCEPT !.register_y = o.val], o.val))

nop(c) == c

\* sta setting ZERO and NEGATIVE from the stored value, as a load does
sta_updating_flags(c, mode) ==
  bind(get_operand_address(c, mode), LAMBDA addr :
    IF addr.fault # "" THEN Fail(c, addr.fault)
    ELSE update_zero_and_negative_flags(mem_write(c, addr.val, c.register_a), c.register_a))

sta(c, mode) ==
  bind(get_operand_address(c, mode), LAMBDA addr :
    IF addr.fault # "" THEN Fail(c, addr.fault) ELSE mem_write(c, addr.val, c.register_a))

stx(c, mode) ==
  bind(get_operand_address(c, mode), LAMBDA addr :
    IF addr.fault # "" THEN Fail(c, addr.fault) ELSE mem_write(c, addr.val, c.register_x))

sty(c, mode) ==
  bind(get_operand_address(c, mode), LAMBDA addr :
    IF addr.fault # "" THEN Fail(c, addr.fault) ELSE mem_write(c, addr.val, c.register_y))

\* php pushing the flags as they are
php_pushing_status(c) == stack_push(c, c.status)

pha(c) == stack_push(c, c.register_a)

php(c) == stack_push(c, insert(insert(c.status, BREAK), BREAK2))

pla(c) ==
  bind(stack_pop(c), LAMBDA p :
    update_zero_and_negative_flags([p.cpu EXCEPT !.register_a = p.val], p.val))

\* plp keeping the BREAK bit of the popped byte
plp_keeping_break(c) ==
  bind(stack_pop(c), LAMBDA p : [p.cpu EXCEPT !.status = insert(p.val, BREAK2)])

plp(c) ==
  bind(stack_pop(c), LAMBDA p :
    [p.cpu EXCEPT !.status = insert(remove(p.val, BREAK), BREAK2)])

\* rti taking the popped byte as the status, unchanged
rti_restoring_status(c) ==
  bind(stack_pop(c), LAMBDA p :
    bind(stack_pop_u16([p.cpu EXCEPT !.status = p.val]),
         LAMBDA q : [q.cpu EXCEPT !.program_counter = q.val]))

\* rti adding 1 to the popped address, as rts does
rti_incrementing(c) ==
  bind(stack_pop(c), LAMBDA p :
    bind(stack_pop_u16([p.cpu EXCEPT !.status = insert(remove(p.val, BREAK), BREAK2)]),
         LAMBDA q : [q.cpu EXCEPT !.program_counter = (q.val + 1) % U16]))

rti(c) ==
  bind(stack_pop(c), LAMBDA p :
    bind(stack_pop_u16([p.cpu EXCEPT !.status = insert(remove(p.val, BREAK), BREAK2)]),
         LAMBDA q : [q.cpu EXCEPT !.program_counter = q.val]))

\* TAX taking register_y
tax_from_y(c) == update_zero_and_negative_flags([c EXCEPT !.register_x = c.register_y], c.register_y)

tax(c) == update_zero_and_negative_flags([c EXCEPT !.register_x = c.register_a], c.register_a)
tay(c) == update_zero_and_negative_flags([c EXCEPT !.register_y = c.register_a], c.register_a)
tsx(c) == update_zero_and_negative_flags([c EXCEPT !.register_x = c.stack_pointer], c.stack_pointer)
txa(c) == update_zero_and_negative_flags([c EXCEPT !.register_a = c.register_x], c.register_x)
txs(c) == [c EXCEPT !.stack_pointer = c.register_x]
tya(c) == update_zero_and_negative_flags([c EXCEPT !.register_a = c.register_y], c.register_y)

\* a BRK that pushes the flags, as PHP does, before it returns
brk_pushing_flags(c) ==
  [stack_push(c, insert(insert(c.status, BREAK), BREAK2)) EXCEPT !.returned = TRUE]

\* the arm of opcode 0x00: `return`
brk(c) == [c EXCEPT !.returned = TRUE]
(***************************************************************************)
(* The `match code` of run_with_callback                                    *)
(***************************************************************************)
dispatch(c, code_, mode) ==
  CASE code_ = \h00 -> brk(c)
    [] code_ \in {\h69, \h65, \h75, \h6D, \h7D, \h79, \h61, \h71} -> adc(c, mode)
    [] code_ \in {\h29, \h25, \h35, \h2D, \h3D, \h39, \h21, \h31} -> and(c, mode)
    [] code_ \in {\h0A, \h06, \h16, \h0E, \h1E} -> asl(c, mode)
    [] code_ = \h90 -> bcc(c)
    [] code_ = \hB0 -> bcs(c)
    [] code_ = \hF0 -> beq(c)
    [] code_ = \h30 -> bmi(c)
    [] code_ = \hD0 -> bne(c)
    [] code_ = \h10 -> bpl(c)
    [] code_ = \h50 -> bvc(c)
    [] code_ = \h70 -> bvs(c)
    [] code_ \in {\h24, \h2C} -> bit(c, mode)
    [] code_ = \h18 -> clc(c)
    [] code_ = \hD8 -> cld(c)
    [] code_ = \h58 -> cli(c)
    [] code_ = \hB8 -> clv(c)
    [] code_ \in {\hC9, \hC5, \hD5, \hCD, \hDD, \hD9, \hC1, \hD1} -> cmp(c, mode)
    [] code_ \in {\hE0, \hE4, \hEC} -> cpx(c, mode)
    [] code_ \in {\hC0, \hC4, \hCC} -> cpy(c, mode)
    [] code_ \in {\hC6, \hD6, \hCE, \hDE} -> dec(c, mode)
    [] code_ = \hCA -> dex(c)
    [] code_ = \h88 -> dey(c)
    [] code_ \in {\h49, \h45, \h55, \h4D, \h5D, \h59, \h41, \h51} -> eor(c, mode)
    [] code_ \in {\hE6, \hF6, \hEE, \hFE} -> inc(c, mode)
    [] code_ = \hE8 -> inx(c)
    [] code_ = \hC8 -> iny(c)
    [] code_ \in {\h4C, \h6C} -> jmp(c, mode)
    [] code_ = \h20 -> jsr(c)
    [] code_ \in {\hA9, \hA5, \hB5, \hAD, \hBD, \hB9, \hA1, \hB1} -> lda(c, mode)
    [] code_ \in {\hA2, \hA6, \hB6, \hAE, \hBE} -> ldx(c, mode)
    [] code_ \in {\hA0, \hA4, \hB4, \hAC, \hBC} -> ldy(c, mode)
    [] code_ \in {\h4A, \h46, \h56, \h4E, \h5E} -> lsr(c, mode)
    [] code_ = \hEA -> nop(c)
    [] code_ \in {\h09, \h05, \h15, \h0D, \h1D, \h19, \h01, \h11} -> ora(c, mode)
    [] code_ \in {\h85, \h95, \h8D, \h9D, \h99, \h81, \h91} -> sta(c, mode)
    [] code_ \in {\h86, \h96, \h8E} -> stx(c, mode)
    [] code_ \in {\h84, \h94, \h8C} -> sty(c, mode)
    [] code_ = \h48 -> pha(c)
    [] code_ = \h08 -> php(c)
    [] code_ = \h68 -> pla(c)
    [] code_ = \h28 -> plp(c)
    [] code_ \in {\h2A, \h26, \h36, \h2E, \h3E} -> rol(c, mode)
    [] code_ \in {\h6A, \h66, \h76, \h6E, \h7E} -> ror(c, mode)
    [] code_ = \h60 -> rts(c)
    [] code_ = \h40 -> rti(c)
    [] code_ \in {\hE9, \hE5, \hF5, \hED, \hFD, \hF9, \hE1, \hF1} -> sbc(c, mode)
    [] code_ = \h38 -> sec(c)
    [] code_ = \hF8 -> sed(c)
    [] code_ = \h78 -> sei(c)
    [] code_ = \hAA -> tax(c)
    [] code_ = \hA8 -> tay(c)
    [] code_ = \hBA -> tsx(c)
    [] code_ = \h8A -> txa(c)
    [] code_ = \h9A -> txs(c)
    [] code_ = \h98 -> tya(c)
    [] OTHER -> Fail(c, NotYetImplemented)

(***************************************************************************)
(* run_with_callback: one iteration of `loop`                              *)
(***************************************************************************)
NoPanic == [kind |-> "", code |-> 0, pc |-> 0, registers |-> 0, dump |-> << >>]

\* the message with register_a under `registers=`
NotRecognizedMsg_register_a(c, k) ==
  [kind |-> NotRecognized, code |-> k, pc |-> c.program_counter,
   registers |-> c.register_a, dump |-> c.memory]

\* the text of .expect(&format!("OpCode {:#04x} is not recognized! (pc={:x}, registers={:b})\n{}", ..))
NotRecognizedMsg(c, k) ==
  [kind |-> NotRecognized, code |-> k, pc |-> c.program_counter,
   registers |-> c.status, dump |-> c.memory]

OtherPanic(why) == [kind |-> why, code |-> 0, pc |-> 0, registers |-> 0, dump |-> << >>]

\* the reads of get_next_bytes, called for the trace line
get_next_bytes(c, len) ==
  IF len = 2 THEN mem_read(c, c.program_counter).fault
  ELSE IF len = 3 THEN mem_read_u16(c, c.program_counter).fault
  ELSE ""

\* an advance by the whole len
advance_by_len(c, pcs, len) ==
  IF pcs = c.program_counter
  THEN [c EXCEPT !.program_counter = (@ + len) % U16]
  ELSE c

\* the post-dispatch advance
advance(c, pcs, len) ==
  IF pcs = c.program_counter
  THEN bind(add_u16(c, c.program_counter, len - 1), LAMBDA n :
         IF n.fault # "" THEN Fail(c, n.fault)
         ELSE [c EXCEPT !.program_counter = n.val])
  ELSE c

\* the callback of run(): |_| {}
callback(c) == c

\* what an iteration leaves: the CPU, the locals `code` and
\* `program_counter_state`, the panic message if any, whether the
\* callback was invoked and the CPU it was given
Outcome(c, k, pcs, msg, called) ==
  [cpu |-> c, code |-> k, pcs |-> pcs, msg |-> msg, called |-> called, seen |-> << >>]

\* the loop with the callback invoked before the program counter is advanced
loop_iteration_observing_first(c) ==
  bind(mem_read(c, c.program_counter), LAMBDA fetched :
    IF fetched.fault # ""
    THEN Outcome(Fail(c, fetched.fault), code, program_counter_state,
                 OtherPanic(fetched.fault), FALSE)
    ELSE
  bind([c EXCEPT !.program_counter = @ + 1], LAMBDA c1 :
    IF fetched.val \notin DOMAIN OPCODES_MAP
    THEN Outcome(Fail(c1, NotRecognized), fetched.val, c1.program_counter,
                 NotRecognizedMsg(c1, fetched.val), FALSE)
    ELSE
  bind(OPCODES_MAP[fetched.val], LAMBDA opcode :
  bind(get_next_bytes(c1, opcode.len), LAMBDA trace :
    IF trace # ""
    THEN Outcome(Fail(c1, trace), fetched.val, c1.program_counter, OtherPanic(trace), FALSE)
    ELSE
  bind(dispatch(c1, fetched.val, opcode.mode), LAMBDA c2 :
    IF c2.fault # ""
    THEN Outcome(c2, fetched.val, c1.program_counter, OtherPanic(c2.fault), FALSE)
    ELSE IF c2.returned
    THEN Outcome(c2, fetched.val, c1.program_counter, NoPanic, FALSE)
    ELSE
  bind(advance(c2, c1.program_counter, opcode.len), LAMBDA c3 :
    IF c3.fault # ""
    THEN Outcome(c3, fetched.val, c1.program_counter, OtherPanic(c3.fault), FALSE)
    ELSE [Outcome(callback(c3), fetched.val, c1.program_counter, NoPanic, TRUE)
            EXCEPT !.seen = Snapshot(c2)]))))))

loop_iteration(c) ==
  bind(mem_read(c, c.program_counter), LAMBDA fetched :
    IF fetched.fault # ""
    THEN Outcome(Fail(c, fetched.fault), code, program_counter_state,
                 OtherPanic(fetched.fault), FALSE)
    ELSE
  bind([c EXCEPT !.program_counter = @ + 1], LAMBDA c1 :
    IF fetched.val \notin DOMAIN OPCODES_MAP
    THEN Outcome(Fail(c1, NotRecognized), fetched.val, c1.program_counter,
                 NotRecognizedMsg(c1, fetched.val), FALSE)
    ELSE
  bind(OPCODES_MAP[fetched.val], LAMBDA opcode :
  bind(get_next_bytes(c1, opcode.len), LAMBDA trace :
    IF trace # ""
    THEN Outcome(Fail(c1, trace), fetched.val, c1.program_counter, OtherPanic(trace), FALSE)
    ELSE
  bind(dispatch(c1, fetched.val, opcode.mode), LAMBDA c2 :
    IF c2.fault # ""
    THEN Outcome(c2, fetched.val, c1.program_counter, OtherPanic(c2.fault), FALSE)
    ELSE IF c2.returned
    THEN Outcome(c2, fetched.val, c1.program_counter, NoPanic, FALSE)
    ELSE
  bind(advance(c2, c1.program_counter, opcode.len), LAMBDA c3 :
    IF c3.fault # ""
    THEN Outcome(c3, fetched.val, c1.program_counter, OtherPanic(c3.fault), FALSE)
    ELSE [Outcome(callback(c3), fetched.val, c1.program_counter, NoPanic, TRUE)
            EXCEPT !.seen = Snapshot(c3)]))))))

(***************************************************************************)
(* Inputs                                                                  *)
(***************************************************************************)
Bytes == 0 .. 255

\* operand bytes of the programs
OperandBytes == {\h00, \h01, \h7F, \h80, \hFF}
OperandBytes2 == {\h00, \h80, \hFF}

\* every opcode byte, with every combination of the operand bytes
Programs == {<<op, b1, b2>> : op \in Bytes, b1 \in OperandBytes, b2 \in OperandBytes2}

\* new() with the program counter at zero
new_at_zero ==
  [register_a |-> 0, register_x |-> 0, register_y |-> 0,
   stack_pointer |-> STACK_RESET,
   status |-> bitor(INTERRUPT_DISABLE, BREAK2),
   program_counter |-> 0,
   memory |-> << >>]

\* MyCPU::new()
new ==
  [register_a |-> 0, register_x |-> 0, register_y |-> 0,
   stack_pointer |-> STACK_RESET,
   status |-> bitor(INTERRUPT_DISABLE, BREAK2),
   program_counter |-> LoadAddress,
   memory |-> << >>]

\* values the host may assign to the pub fields before a run
HostA == {\h00, \h7F, \h81}
HostX == {\h00, \h01, \hFF}
HostY == {\h00, \h01, \hFF}
HostSP == {STACK_RESET, \h00}
HostStatus == {\h24, \h25, \h26, \h2C, \h64, \hA4, \hE7}

\* pub fields the host assigns before a run
MaxHostWrites == 1

\* the register files that differ from new() in 1 .. MaxHostWrites fields
HostFiles ==
  LET all == [register_a : HostA, register_x : HostX, register_y : HostY,
              stack_pointer : HostSP, status : HostStatus]
      writes(f) == Cardinality({k \in DOMAIN f : f[k] # new[k]})
  IN {f \in all : writes(f) >= 1 /\ writes(f) <= MaxHostWrites}

(***************************************************************************)
(* new, load, reset, and the host's writes to the pub fields               *)
(***************************************************************************)
\* a call of the host: the method, what it was given and what it returned
Call(fn, arg, ret) == [fn |-> fn, arg |-> arg, ret |-> ret]

Init ==
  /\ register_a = new.register_a
  /\ register_x = new.register_x
  /\ register_y = new.register_y
  /\ stack_pointer = new.stack_pointer
  /\ status = new.status
  /\ program_counter = new.program_counter
  /\ memory = new.memory
  /\ overflow_checks \in BOOLEAN
  /\ phase = "new"
  /\ code = 0
  /\ program_counter_state = 0
  /\ branched = FALSE
  /\ panic_msg = NoPanic
  /\ steps = 0
  /\ callbacks = << >>
  /\ prev = new
  /\ log = << >>
  /\ call = Call("new", << >>, << >>)

Commit(c) ==
  /\ register_a' = c.register_a
  /\ register_x' = c.register_x
  /\ register_y' = c.register_y
  /\ status' = c.status
  /\ program_counter' = c.program_counter
  /\ stack_pointer' = c.stack_pointer
  /\ memory' = c.memory

\* the host assigns pub fields of a fresh CPU, as the tests do before load_and_run
HostSetup ==
  /\ phase = "new"
  /\ \E f \in HostFiles :
       /\ register_a' = f.register_a
       /\ register_x' = f.register_x
       /\ register_y' = f.register_y
       /\ stack_pointer' = f.stack_pointer
       /\ status' = f.status
  /\ phase' = "setup"
  /\ UNCHANGED <<program_counter, memory, overflow_checks, code, program_counter_state,
                 branched, panic_msg, steps, callbacks, prev, log, call>>

RECURSIVE copy_from_slice(_, _, _)
copy_from_slice(m, start, program) ==
  IF program = << >> THEN m
  ELSE copy_from_slice(Store(m, start, Head(program)), start + 1, Tail(program))

\* load copying the program one byte further up
load_one_byte_up(c, program) ==
  mem_write_u16([c EXCEPT !.memory = copy_from_slice(@, LoadAddress + 1, program)],
                ResetVector, LoadAddress)

load(c, program) ==
  mem_write_u16([c EXCEPT !.memory = copy_from_slice(@, LoadAddress, program)],
                ResetVector, LoadAddress)

Load ==
  /\ phase \in {"new", "setup"}
  /\ \E program \in Programs :
       /\ Commit(load(Self, program))
       /\ call' = Call("load", program, << >>)
  /\ phase' = "loaded"
  /\ UNCHANGED <<overflow_checks, code, program_counter_state, branched, panic_msg,
                 steps, callbacks, prev, log>>

\* reset leaving the flags as they are
reset_keeping_status(c) ==
  LET v == mem_read_u16(c, ResetVector)
  IN [c EXCEPT !.register_a = 0, !.register_x = 0, !.register_y = 0,
               !.stack_pointer = STACK_RESET,
               !.program_counter = v.val]

reset(c) ==
  LET v == mem_read_u16(c, ResetVector)
  IN [c EXCEPT !.register_a = 0, !.register_x = 0, !.register_y = 0,
               !.stack_pointer = STACK_RESET,
               !.status = bitor(INTERRUPT_DISABLE, BREAK2),
               !.program_counter = v.val]

Reset ==
  /\ phase = "loaded"
  /\ Commit(reset(Self))
  /\ phase' = "reset"
  /\ call' = Call("reset", << >>, << >>)
  /\ UNCHANGED <<overflow_checks, code, program_counter_state, branched, panic_msg,
                 steps, callbacks, prev, log>>

\* one iteration of the loop of run(), entered from load_and_run or
\* load_reset_and_run
Step ==
  /\ phase \in {"loaded", "reset", "running"}
  /\ steps < MaxSteps
  /\ \E r \in {loop_iteration(Self)} :
        /\ Commit(r.cpu)
        /\ phase' = IF r.cpu.fault # "" THEN "panicked"
                    ELSE IF r.cpu.returned THEN "halted"
                    ELSE "running"
        /\ code' = r.code
        /\ program_counter_state' = r.pcs
        /\ branched' = r.cpu.taken
        /\ panic_msg' = r.msg
        /\ callbacks' = IF r.called THEN Append(callbacks, r.seen) ELSE callbacks
  /\ steps' = steps + 1
  /\ prev' = Snapshot(Self)
  /\ log' = Append(log, Snapshot(Self))
  /\ UNCHANGED <<overflow_checks, call>>

Next == HostSetup \/ Load \/ Reset \/ Step

Spec == Init /\ [][Next]_vars

(***************************************************************************)
(* ADC immediate over every accumulator, operand and carry-in: the host    *)
(* sets register_a and the CARRY flag, loads <<0x69, b>> and runs          *)
(***************************************************************************)
InitAdc ==
  /\ register_a \in Bytes
  /\ register_x = 0
  /\ register_y = 0
  /\ stack_pointer = STACK_RESET
  /\ status \in {bitor(INTERRUPT_DISABLE, BREAK2),
                 bitor(bitor(INTERRUPT_DISABLE, BREAK2), CARRY)}
  /\ program_counter = LoadAddress
  /\ \E b \in Bytes :
       memory = load([memory |-> new.memory, fault |-> "", overflow_checks |-> TRUE],
                     <<\h69, b>>).memory
  /\ overflow_checks = TRUE
  /\ phase = "loaded"
  /\ code = 0
  /\ program_counter_state = 0
  /\ branched = FALSE
  /\ panic_msg = NoPanic
  /\ steps = 0
  /\ callbacks = << >>
  /\ prev = Snapshot(Self)
  /\ log = << >>
  /\ call = Call("load", <<\h69, Cell(memory, LoadAddress + 1)>>, << >>)

\* the first iteration of the loop
FirstStep == steps = 0 /\ Step

SpecAdc == InitAdc /\ [][FirstStep]_vars

(***************************************************************************)
(* Runs of the stack instructions: the host sets stack_pointer, status or  *)
(* register_a, writes bytes into page one with mem_write, as the tests do, *)
(* and calls load_and_run                                                  *)
(***************************************************************************)
StackPointers == {\hFF, \hFE, \hFD, \h00, \h01, \h80}
\* PLP, RTI, RTS, PLA
PullPrograms == {<<\h28>>, <<\h40>>, <<\h60>>, <<\h68>>}
\* PHP PLP; PHA PLA; PHP PLA; PHA PLP; JSR to an RTS, with nothing, a NOP, a
\* PHA or a PHA PLA before it; JSR to PHP RTI
PushPullPrograms ==
  {<<\h08, \h28>>, <<\h48, \h68>>, <<\h08, \h68>>, <<\h48, \h28>>,
   <<\h20, \h03, \h80, \h60>>,
   <<\h20, \h04, \h80, \h00, \hEA, \h60>>,
   <<\h20, \h04, \h80, \h00, \h48, \h60>>,
   <<\h20, \h04, \h80, \h00, \h48, \h68, \h60>>,
   <<\h20, \h03, \h80, \h08, \h40>>}
StackLo == {\h00, \h34, \hFF}
StackHi == {\h12, \hFF}

\* the three bytes the next pops will read
host_stack(c, b, lo, hi) ==
  mem_write(mem_write(mem_write(c, STACK_AREA + wrapping_add(c.stack_pointer, 1, U8), b),
                      STACK_AREA + wrapping_add(c.stack_pointer, 2, U8), lo),
            STACK_AREA + wrapping_add(c.stack_pointer, 3, U8), hi)

\* MyCPU::new() as `self`
fresh ==
  [register_a |-> new.register_a, register_x |-> new.register_x,
   register_y |-> new.register_y, status |-> new.status,
   program_counter |-> new.program_counter, stack_pointer |-> new.stack_pointer,
   memory |-> new.memory, overflow_checks |-> TRUE,
   fault |-> "", returned |-> FALSE, taken |-> FALSE]

InitStack ==
  /\ register_x = 0
  /\ register_y = 0
  /\ program_counter = LoadAddress
  /\ stack_pointer \in StackPointers
  /\ overflow_checks \in BOOLEAN
  /\ \/ /\ register_a = 0
        /\ status = new.status
        /\ \E b \in Bytes, lo \in StackLo, hi \in StackHi, program \in PullPrograms :
             /\ memory = load(host_stack([fresh EXCEPT !.stack_pointer = stack_pointer],
                                         b, lo, hi), program).memory
             /\ call = Call("load", program, << >>)
     \/ /\ register_a \in HostA
        /\ status \in Bytes
        /\ \E program \in PushPullPrograms :
             /\ memory = load(fresh, program).memory
             /\ call = Call("load", program, << >>)
  /\ phase = "loaded"
  /\ code = 0
  /\ program_counter_state = 0
  /\ branched = FALSE
  /\ panic_msg = NoPanic
  /\ steps = 0
  /\ callbacks = << >>
  /\ prev = Snapshot(Self)
  /\ log = << >>

SpecStack == InitStack /\ [][Step]_vars

(***************************************************************************)
(* Single calls: stack_push_u16 and stack_pop_u16 over every stack         *)
(* pointer, update_zero_and_negative_flags over every byte and status,     *)
(* reset and load over memories the host has written                       *)
(***************************************************************************)
\* 16-bit values
Words == {(hi * 256) + lo : hi \in {\h00, \h01, \h12, \h7F, \h80, \hFF},
                            lo \in {\h00, \h01, \h34, \h7F, \h80, \hFF}}
\* memories the host has written with mem_write before load or reset
HostMemories ==
  {<< >>,
   (\h0000 :> \h33) @@ (\h01FF :> \h55) @@ (\h8000 :> \hAA) @@ (\h8003 :> \hBB)
     @@ (\hFFFC :> \h34) @@ (\hFFFD :> \h12) @@ (\hFFFE :> \h44),
   (\h7FFF :> \h01) @@ (\h8002 :> \hCC) @@ (\hFFFC :> \hFF) @@ (\hFFFD :> \hFF)}

InitCalls ==
  /\ overflow_checks = TRUE
  /\ \/ /\ phase = "calling"
        /\ \E v \in Words : call = Call("stack_push_u16", v, << >>)
        /\ stack_pointer \in Bytes
        /\ register_a = new.register_a
        /\ register_x = new.register_x
        /\ register_y = new.register_y
        /\ status = new.status
        /\ program_counter = new.program_counter
        /\ memory = new.memory
     \/ /\ phase = "calling"
        /\ \E result \in Bytes : call = Call("update_zero_and_negative_flags", result, << >>)
        /\ stack_pointer = new.stack_pointer
        /\ register_a = new.register_a
        /\ register_x = new.register_x
        /\ register_y = new.register_y
        /\ status \in Bytes
        /\ program_counter = new.program_counter
        /\ memory = new.memory
     \/ /\ phase = "loaded"
        /\ call = Call("mem_write", << >>, << >>)
        /\ stack_pointer \in HostSP
        /\ register_a \in HostA
        /\ register_x \in HostX
        /\ register_y = \hFF
        /\ status \in HostStatus
        /\ program_counter \in {new.program_counter, \h0000, \hFFFF}
        /\ memory \in HostMemories
     \/ /\ phase = "setup"
        /\ call = Call("mem_write", << >>, << >>)
        /\ stack_pointer = \h80
        /\ register_a = \h7F
        /\ register_x = \h01
        /\ register_y = \hFF
        /\ status = \hE7
        /\ program_counter = new.program_counter
        /\ memory \in HostMemories
  /\ code = 0
  /\ program_counter_state = 0
  /\ branched = FALSE
  /\ panic_msg = NoPanic
  /\ steps = 0
  /\ callbacks = << >>
  /\ prev = Snapshot(Self)
  /\ log = << >>

PushU16 ==
  /\ phase = "calling"
  /\ call.fn = "stack_push_u16"
  /\ Commit(stack_push_u16(Self, call.arg))
  /\ phase' = "pushed"
  /\ prev' = Snapshot(Self)
  /\ UNCHANGED <<overflow_checks, code, program_counter_state, branched, panic_msg,
                 steps, callbacks, log, call>>

\* `arg` keeps the value the push was given
PopU16 ==
  /\ phase = "pushed"
  /\ \E r \in {stack_pop_u16(Self)} :
       /\ Commit(r.cpu)
       /\ call' = Call("stack_pop_u16", call.arg, r.val)
  /\ phase' = "popped"
  /\ UNCHANGED <<overflow_checks, code, program_counter_state, branched, panic_msg,
                 steps, callbacks, prev, log>>

UpdateFlags ==
  /\ phase = "calling"
  /\ call.fn = "update_zero_and_negative_flags"
  /\ Commit(update_zero_and_negative_flags(Self, call.arg))
  /\ phase' = "updated"
  /\ prev' = Snapshot(Self)
  /\ UNCHANGED <<overflow_checks, code, program_counter_state, branched, panic_msg,
                 steps, callbacks, log, call>>

NextCalls == PushU16 \/ PopU16 \/ UpdateFlags \/ Load \/ Reset

SpecCalls == InitCalls /\ [][NextCalls]_vars


(***************************************************************************)
(* Whole runs: load_and_run and load_reset_and_run on programs of several  *)
(* instructions, and the host's calls of the memory capability             *)
(***************************************************************************)
\* iterations a whole run may take
MaxRunSteps == 4

\* the loop of run_with_callback, left at the BRK arm's return or at a
\* panic, and cut off after `fuel` iterations; `seen` is what the callback
\* has been given so far
RECURSIVE run_with_callback(_, _, _)
run_with_callback(c, seen, fuel) ==
  IF fuel = 0 THEN [cpu |-> c, callbacks |-> seen]
  ELSE bind(loop_iteration(c), LAMBDA r :
         IF ~r.called THEN [cpu |-> r.cpu, callbacks |-> seen]
         ELSE run_with_callback([r.cpu EXCEPT !.taken = FALSE], Append(seen, r.seen), fuel - 1))

\* run(): run_with_callback with the empty callback
run(c, fuel) == run_with_callback(c, << >>, fuel)

\* LDA #v; TAX; INX; BRK for every byte v
ScenarioPrograms == {<<\hA9, v, \hAA, \hE8, \h00>> : v \in Bytes}

\* addresses the host reads and writes
Addresses == {\h0000, \h0001, \h00FF, \h0100, \h01FF, \h7FFF, \h8000,
              \hFFFB, \hFFFC, \hFFFD, \hFFFE, \hFFFF}

\* INC, DEC on zero page, zero page,X, absolute and absolute,X, and INX,
\* INY, DEX, DEY
IncDecCodes == {\hE6, \hF6, \hEE, \hFE, \hC6, \hD6, \hCE, \hDE, \hE8, \hC8, \hCA, \h88}
\* the instruction on 0x10 or 0x1234, and a BRK
IncDecProgram(k) ==
  IF k \in {\hE6, \hF6, \hC6, \hD6} THEN <<k, \h10, \h00>>
  ELSE IF k \in {\hEE, \hFE, \hCE, \hDE} THEN <<k, \h34, \h12, \h00>>
  ELSE <<k, \h00>>
\* the memory the host has written for IncDecProgram(k) run with
\* register_x = i: the byte m where the instruction will find it
IncDecMemory(k, i, m) ==
  IF k \in {\hE6, \hC6} THEN Store(<< >>, \h10, m)
  ELSE IF k \in {\hF6, \hD6} THEN Store(<< >>, (\h10 + i) % 256, m)
  ELSE IF k \in {\hEE, \hCE} THEN Store(<< >>, \h1234, m)
  ELSE IF k \in {\hFE, \hDE} THEN Store(<< >>, \h1234 + i, m)
  ELSE << >>

InitHost ==
  /\ overflow_checks \in BOOLEAN
  /\ phase = "calling"
  /\ \/ /\ \E program \in ScenarioPrograms : call = Call("load_reset_and_run", program, << >>)
        /\ register_a \in HostA
        /\ register_x \in HostX
        /\ register_y = new.register_y
        /\ stack_pointer = new.stack_pointer
        /\ status \in {new.status, \hE7}
        /\ memory = new.memory
     \/ /\ call = Call("load_and_run", <<\hE8, \hE8, \h00>>, << >>)
        /\ register_a = new.register_a
        /\ register_x \in Bytes
        /\ register_y = new.register_y
        /\ stack_pointer = new.stack_pointer
        /\ status = new.status
        /\ memory = new.memory
     \/ /\ \E k \in IncDecCodes, m \in Bytes, i \in {\h00, \h01, \hFF} :
             /\ call = Call("load_and_run", IncDecProgram(k), << >>)
             /\ register_x = IF k \in {\hE8, \hCA} THEN m ELSE i
             /\ register_y = IF k \in {\hC8, \h88} THEN m ELSE i
             /\ memory = IncDecMemory(k, i, m)
        /\ register_a = \h7F
        /\ stack_pointer = new.stack_pointer
        /\ status \in {new.status, \hE7}
     \/ /\ \E addr \in Addresses, data \in OperandBytes :
             call = Call("mem_write", <<addr, data>>, << >>)
        /\ register_a = new.register_a
        /\ register_x = new.register_x
        /\ register_y = new.register_y
        /\ stack_pointer = new.stack_pointer
        /\ status = new.status
        /\ memory \in HostMemories
     \/ /\ \E pos \in Addresses, data \in Words :
             call = Call("mem_write_u16", <<pos, data>>, << >>)
        /\ register_a = new.register_a
        /\ register_x = new.register_x
        /\ register_y = new.register_y
        /\ stack_pointer = new.stack_pointer
        /\ status = new.status
        /\ memory \in HostMemories
  /\ program_counter = new.program_counter
  /\ code = 0
  /\ program_counter_state = 0
  /\ branched = FALSE
  /\ panic_msg = NoPanic
  /\ steps = 0
  /\ callbacks = << >>
  /\ prev = Snapshot(Self)
  /\ log = << >>

\* where a call leaves the host: after a normal return of a run, after a
\* panic, or with the run cut off
Left(c, done) ==
  IF c.fault # "" THEN "panicked"
  ELSE IF c.returned THEN "halted"
  ELSE done

LoadResetAndRun ==
  /\ phase = "calling"
  /\ call.fn = "load_reset_and_run"
  /\ \E r \in {run(reset(load(Self, call.arg)), MaxRunSteps)} :
       /\ Commit(r.cpu)
       /\ phase' = Left(r.cpu, "running")
       /\ panic_msg' = OtherPanic(r.cpu.fault)
       /\ callbacks' = r.callbacks
       /\ steps' = Len(r.callbacks) + (IF Left(r.cpu, "running") = "running" THEN 0 ELSE 1)
       /\ log' = SubSeq(<<Snapshot(reset(load(Self, call.arg)))>> \o r.callbacks, 1, steps')
  /\ prev' = Snapshot(Self)
  /\ UNCHANGED <<overflow_checks, code, program_counter_state, branched, call>>

LoadAndRun ==
  /\ phase = "calling"
  /\ call.fn = "load_and_run"
  /\ \E r \in {run(load(Self, call.arg), MaxRunSteps)} :
       /\ Commit(r.cpu)
       /\ phase' = Left(r.cpu, "running")
       /\ panic_msg' = OtherPanic(r.cpu.fault)
       /\ callbacks' = r.callbacks
       /\ steps' = Len(r.callbacks) + (IF Left(r.cpu, "running") = "running" THEN 0 ELSE 1)
       /\ log' = SubSeq(<<Snapshot(load(Self, call.arg))>> \o r.callbacks, 1, steps')
  /\ prev' = Snapshot(Self)
  /\ UNCHANGED <<overflow_checks, code, program_counter_state, branched, call>>

MemWrite ==
  /\ phase = "calling"
  /\ call.fn = "mem_write"
  /\ \E c \in {mem_write(Self, call.arg[1], call.arg[2])} :
       /\ Commit(c)
       /\ phase' = Left(c, "written")
       /\ panic_msg' = OtherPanic(c.fault)
  /\ prev' = Snapshot(Self)
  /\ UNCHANGED <<overflow_checks, code, program_counter_state, branched,
                 steps, callbacks, log, call>>

\* `arg` keeps the address and the byte of the write
MemRead ==
  /\ phase = "written"
  /\ call.fn = "mem_write"
  /\ \E r \in {mem_read(Self, call.arg[1])} :
       /\ call' = Call("mem_read", call.arg, r.val)
       /\ phase' = IF r.fault # "" THEN "panicked" ELSE "read"
       /\ panic_msg' = OtherPanic(r.fault)
  /\ UNCHANGED <<cpu_vars, overflow_checks, code, program_counter_state, branched,
                 steps, callbacks, prev, log>>

MemWriteU16 ==
  /\ phase = "calling"
  /\ call.fn = "mem_write_u16"
  /\ \E c \in {mem_write_u16(Self, call.arg[1], call.arg[2])} :
       /\ Commit(c)
       /\ phase' = Left(c, "written")
       /\ panic_msg' = OtherPanic(c.fault)
  /\ prev' = Snapshot(Self)
  /\ UNCHANGED <<overflow_checks, code, program_counter_state, branched,
                 steps, callbacks, log, call>>

\* `arg` keeps the address and the value of the write
MemReadU16 ==
  /\ phase = "written"
  /\ call.fn = "mem_write_u16"
  /\ \E r \in {mem_read_u16(Self, call.arg[1])} :
       /\ call' = Call("mem_read_u16", call.arg, r.val)
       /\ phase' = IF r.fault # "" THEN "panicked" ELSE "read"
       /\ panic_msg' = OtherPanic(r.fault)
  /\ UNCHANGED <<cpu_vars, overflow_checks, code, program_counter_state, branched,
                 steps, callbacks, prev, log>>

NextHost ==
  LoadResetAndRun \/ LoadAndRun \/ MemWrite \/ MemRead \/ MemWriteU16 \/ MemReadU16

SpecHost == InitHost /\ [][NextHost]_vars

(***************************************************************************)
(* run_with_callback with callbacks that use the `&mut MyCPU` they are     *)
(* given                                                                   *)
(***************************************************************************)
\* closures the host may pass: `|_| {}`, `|cpu| cpu.register_a = 0x42` and
\* `|cpu| cpu.program_counter = 0x8000`
Callbacks == {"empty", "register_a", "program_counter"}

\* callback(self) for the closure f
invoke(f, c) ==
  CASE f = "empty" -> c
    [] f = "register_a" -> [c EXCEPT !.register_a = \h42]
    [] f = "program_counter" -> [c EXCEPT !.program_counter = LoadAddress]

\* the host calls run_with_callback(f) on the loaded CPU
RunWithCallback ==
  /\ phase = "loaded"
  /\ \E f \in Callbacks : call' = Call("run_with_callback", f, << >>)
  /\ phase' = "running"
  /\ UNCHANGED <<cpu_vars, overflow_checks, code, program_counter_state, branched,
                 panic_msg, steps, callbacks, prev, log>>

\* one iteration of the loop of run_with_callback(f)
StepObserved ==
  /\ phase = "running"
  /\ call.fn = "run_with_callback"
  /\ steps < MaxSteps
  /\ \E r \in {loop_iteration(Self)} :
        /\ Commit(IF r.called THEN invoke(call.arg, r.cpu) ELSE r.cpu)
        /\ phase' = IF r.cpu.fault # "" THEN "panicked"
                    ELSE IF r.cpu.returned THEN "halted"
                    ELSE "running"
        /\ code' = r.code
        /\ program_counter_state' = r.pcs
        /\ branched' = r.cpu.taken
        /\ panic_msg' = r.msg
        /\ callbacks' = IF r.called THEN Append(callbacks, r.seen) ELSE callbacks
  /\ steps' = steps + 1
  /\ prev' = Snapshot(Self)
  /\ log' = Append(log, Snapshot(Self))
  /\ UNCHANGED <<overflow_checks, call>>

NextObserver == Load \/ RunWithCallback \/ StepObserved

SpecObserver == Init /\ [][NextObserver]_vars

(***************************************************************************)
(* Single calls of rol, ror and get_operand_address, in every mode the     *)
(* match of run_with_callback can hand them                                *)
(***************************************************************************)
\* the modes rol and ror are written for
RotateModes == {"NoneAddressing", "ZeroPage", "ZeroPage_X", "Absolute", "Absolute_X"}
\* the modes get_operand_address resolves
ResolvedModes == {"Immediate", "ZeroPage", "ZeroPage_X", "ZeroPage_Y", "Absolute",
                  "Absolute_X", "Absolute_Y", "Indirect_X", "Indirect_Y"}
\* where the operand bytes of the instruction lie
OperandAt == LoadAddress + 1
\* zero page and the first byte of page one as the host has written them
PointerMemory ==
  (\h0000 :> \h11) @@ (\h0001 :> \h22) @@ (\h0002 :> \h77) @@ (\h007F :> \h0F)
    @@ (\h0080 :> \hF0) @@ (\h0081 :> \hFF) @@ (\h00FE :> \h33) @@ (\h00FF :> \h44)
    @@ (\h0100 :> \h99)

InitHandlers ==
  /\ overflow_checks \in BOOLEAN
  /\ phase = "calling"
  /\ program_counter = OperandAt
  /\ stack_pointer = new.stack_pointer
  /\ \/ /\ \E fn \in {"rol", "ror"}, mode \in RotateModes, v \in Bytes :
             /\ call = Call(fn, mode, << >>)
             /\ register_a = IF mode = "NoneAddressing" THEN v ELSE \h7F
             /\ register_x \in {\h00, \h01}
             /\ memory = Store(Store(<< >>, OperandAt, \h10),
                               IF mode \in {"ZeroPage_X", "Absolute_X"}
                               THEN \h10 + register_x ELSE \h10,
                               IF mode = "NoneAddressing" THEN \h55 ELSE v)
        /\ register_y = new.register_y
        /\ status \in {\h24, \h25, \h26, \hA4}
     \/ /\ \E mode \in ResolvedModes : call = Call("get_operand_address", mode, << >>)
        /\ \E lo \in {\h00, \h01, \h7F, \h80, \hFE, \hFF}, hi \in {\h00, \h12, \hFF} :
             memory = Store(Store(PointerMemory, OperandAt, lo), OperandAt + 1, hi)
        /\ register_a = new.register_a
        /\ register_x \in Bytes
        /\ register_y = (register_x + \h55) % 256
        /\ status = new.status
  /\ code = 0
  /\ program_counter_state = 0
  /\ branched = FALSE
  /\ panic_msg = NoPanic
  /\ steps = 0
  /\ callbacks = << >>
  /\ prev = Snapshot(Self)
  /\ log = << >>

\* self.rol(&opcode.mode) or self.ror(&opcode.mode)
Rotate ==
  /\ phase = "calling"
  /\ call.fn \in {"rol", "ror"}
  /\ \E c \in {IF call.fn = "rol" THEN rol(Self, call.arg) ELSE ror(Self, call.arg)} :
       /\ Commit(c)
       /\ phase' = Left(c, "rotated")
       /\ panic_msg' = OtherPanic(c.fault)
  /\ prev' = Snapshot(Self)
  /\ UNCHANGED <<overflow_checks, code, program_counter_state, branched,
                 steps, callbacks, log, call>>

\* self.get_operand_address(mode), which takes `&self`
Resolve ==
  /\ phase = "calling"
  /\ call.fn = "get_operand_address"
  /\ \E r \in {get_operand_address(Self, call.arg)} :
       /\ call' = Call(call.fn, call.arg, r.val)
       /\ phase' = IF r.fault # "" THEN "panicked" ELSE "resolved"
       /\ panic_msg' = OtherPanic(r.fault)
  /\ UNCHANGED <<cpu_vars, overflow_checks, code, program_counter_state, branched,
                 steps, callbacks, prev, log>>

NextHandlers == Rotate \/ Resolve

SpecHandlers == InitHandlers /\ [][NextHandlers]_vars

(***************************************************************************)
(* load_and_run on programs without control flow                           *)
(***************************************************************************)
\* the table opcodes that are no branch, jump, call, return or BRK
StraightLineCodes ==
  {k \in DOMAIN OPCODES_MAP :
     OPCODES_MAP[k].mnemonic \notin
       {"BRK", "BCC", "BCS", "BEQ", "BMI", "BNE", "BPL", "BVC", "BVS", "JMP", "JSR", "RTS", "RTI"}}

\* the byte sequences of one instruction: the opcode and len - 1 operand bytes
Instructions ==
  UNION {CASE OPCODES_MAP[k].len = 1 -> {<<k>>}
           [] OPCODES_MAP[k].len = 2 -> {<<k, b1>> : b1 \in OperandBytes}
           [] OTHER -> {<<k, b1, b2>> : b1 \in OperandBytes, b2 \in OperandBytes2}
         : k \in StraightLineCodes}

\* values a leading LDA # puts in the accumulator
LeadingValues == {\h00, \hE8, \hFF}

\* one or two instructions, then BRK
StraightLinePrograms ==
  {i \o <<\h00>> : i \in Instructions}
    \cup {<<\hA9, v>> \o i \o <<\h00>> : v \in LeadingValues, i \in Instructions}

LoadStraightLine ==
  /\ phase = "new"
  /\ \E program \in StraightLinePrograms :
       /\ Commit(load(Self, program))
       /\ call' = Call("load_and_run", program, << >>)
  /\ phase' = "loaded"
  /\ UNCHANGED <<overflow_checks, code, program_counter_state, branched, panic_msg,
                 steps, callbacks, prev, log>>

NextRun == LoadStraightLine \/ Step

\* run() is one loop in the calling thread: an iteration that can be taken is taken
SpecRun == Init /\ [][NextRun]_vars /\ WF_vars(Step)

(***************************************************************************)
(* The reference CPU of ref_cpu.rs: its branches and its SBC               *)
(***************************************************************************)
\* CPU::get_operand_address
ref_get_operand_address(c, mode) ==
  CASE mode = "Immediate" -> Val(c.program_counter)
    [] mode = "ZeroPage" -> mem_read(c, c.program_counter)
    [] mode = "Absolute" -> mem_read_u16(c, c.program_counter)
    [] mode = "ZeroPage_X" ->
         bind(mem_read(c, c.program_counter), LAMBDA pos :
           IF pos.fault # "" THEN pos ELSE Val(wrapping_add(pos.val, c.register_x, U8)))
    [] mode = "ZeroPage_Y" ->
         bind(mem_read(c, c.program_counter), LAMBDA pos :
           IF pos.fault # "" THEN pos ELSE Val(wrapping_add(pos.val, c.register_y, U8)))
    [] mode = "Absolute_X" ->
         bind(mem_read_u16(c, c.program_counter), LAMBDA base :
           IF base.fault # "" THEN base ELSE Val(wrapping_add(base.val, c.register_x, U16)))
    [] mode = "Absolute_Y" ->
         bind(mem_read_u16(c, c.program_counter), LAMBDA base :
           IF base.fault # "" THEN base ELSE Val(wrapping_add(base.val, c.register_y, U16)))
    [] mode = "Indirect_X" ->
         bind(mem_read(c, c.program_counter), LAMBDA base :
           IF base.fault # "" THEN base
           ELSE bind(wrapping_add(base.val, c.register_x, U8), LAMBDA ptr :
                  Val((256 * Cell(c.memory, wrapping_add(ptr, 1, U8))) + Cell(c.memory, ptr))))
    [] mode = "Indirect_Y" ->
         bind(mem_read(c, c.program_counter), LAMBDA base :
           IF base.fault # "" THEN base
           ELSE bind((256 * Cell(c.memory, wrapping_add(base.val, 1, U8)))
                       + Cell(c.memory, base.val), LAMBDA deref_base :
                  Val(wrapping_add(deref_base, c.register_y, U16))))
    [] OTHER -> Err(NotSupported)

\* `jump as u16` of an i8: the sign is extended
sign_extend(value) == IF value >= \h80 THEN value + \hFF00 ELSE value

\* CPU::branch
ref_branch(c, condition) ==
  IF condition
  THEN bind(mem_read(c, c.program_counter), LAMBDA jump :
         IF jump.fault # "" THEN Fail(c, jump.fault)
         ELSE [c EXCEPT !.taken = TRUE,
                        !.program_counter =
                           wrapping_add(wrapping_add(@, 1, U16), sign_extend(jump.val), U16)])
  ELSE c

\* CPU::add_to_acc
ref_add_to_acc(c, data) ==
  bind(c.register_a + data + (IF contains(c.status, CARRY) THEN 1 ELSE 0), LAMBDA sum :
    bind(sum % U8, LAMBDA result :
      update_zero_and_negative_flags(
        [c EXCEPT !.status =
                    set(set(@, CARRY, sum > \hFF), OVERFLOW,
                        bitand(bitand(bitxor(data, result), bitxor(result, c.register_a)),
                               \h80) # 0),
                  !.register_a = result],
        result)))

\* CPU::sbc: the operand negated, less one, is added
ref_sbc(c, mode) ==
  bind(ref_get_operand_address(c, mode), LAMBDA addr :
    IF addr.fault # "" THEN Fail(c, addr.fault)
    ELSE bind(mem_read(c, addr.val), LAMBDA value :
           IF value.fault # "" THEN Fail(c, value.fault)
           ELSE ref_add_to_acc(c, wrapping_sub(wrapping_neg(value.val), 1, U8))))

\* the opcodes of the eight branches and of SBC in the table
ReferenceCodes == {\h90, \hB0, \hF0, \h30, \hD0, \h10, \h50, \h70, \hE9}

\* the arms of the reference's `match code` for these opcodes
ref_dispatch(c, k, mode) ==
  CASE k = \h90 -> ref_branch(c, ~contains(c.status, CARRY))
    [] k = \hB0 -> ref_branch(c, contains(c.status, CARRY))
    [] k = \hF0 -> ref_branch(c, contains(c.status, ZERO))
    [] k = \h30 -> ref_branch(c, contains(c.status, NEGATIVE))
    [] k = \hD0 -> ref_branch(c, ~contains(c.status, ZERO))
    [] k = \h10 -> ref_branch(c, ~contains(c.status, NEGATIVE))
    [] k = \h50 -> ref_branch(c, ~contains(c.status, OVERFLOW))
    [] k = \h70 -> ref_branch(c, contains(c.status, OVERFLOW))
    [] k = \hE9 -> ref_sbc(c, mode)

\* one iteration of the reference's loop on one of these opcodes
ref_loop_iteration(c) ==
  bind(mem_read(c, c.program_counter), LAMBDA fetched :
    IF fetched.fault # "" THEN Fail(c, fetched.fault)
    ELSE
  bind([c EXCEPT !.program_counter = @ + 1], LAMBDA c1 :
  bind(OPCODES_MAP[fetched.val], LAMBDA opcode :
  bind(ref_dispatch(c1, fetched.val, opcode.mode), LAMBDA c2 :
    IF c2.fault # "" THEN c2
    ELSE advance(c2, c1.program_counter, opcode.len)))))

(***************************************************************************)
(* What the last iteration of the loop worked on                           *)
(***************************************************************************)
\* an iteration has run: prev, code and program_counter_state describe it
Stepped == steps > 0
\* the byte at the program counter when the iteration began
Fetched == Cell(prev.memory, prev.program_counter)
\* the last iteration ran through to the callback
Completed == Stepped /\ phase = "running"
\* the bytes after the opcode
Operand1 == Cell(prev.memory, prev.program_counter + 1)
Operand2 == Cell(prev.memory, prev.program_counter + 2)
RegistersKept ==
  /\ register_a = prev.register_a
  /\ register_x = prev.register_x
  /\ register_y = prev.register_y
  /\ stack_pointer = prev.stack_pointer
  /\ status = prev.status
  /\ memory = prev.memory

ControlFlowMnemonics ==
  {"BRK", "BCC", "BCS", "BEQ", "BMI", "BNE", "BPL", "BVC", "BVS", "JMP", "JSR", "RTS", "RTI"}
BranchCodes == {\h90, \hB0, \hF0, \h30, \hD0, \h10, \h50, \h70}

\* C1: a completed step of a table opcode that is no branch, jump, call,
\* return or BRK leaves program_counter at the opcode's address plus the
\* descriptor's len; the fetch has added 1 of it.
C1_PcAdvancesByLen ==
  (Completed /\ code \in DOMAIN OPCODES_MAP
     /\ OPCODES_MAP[code].mnemonic \notin ControlFlowMnemonics)
  => /\ code = Fetched
     /\ program_counter_state = prev.program_counter + 1
     /\ program_counter = prev.program_counter + OPCODES_MAP[code].len

\* a three-byte LDA absolute has been executed
C1_Witness ==
  /\ Completed
  /\ code = \hAD
  /\ program_counter = prev.program_counter + 3
  /\ register_a = \hAD

\* C2: the loop returns exactly when the byte fetched is 0x00; it returns
\* with program_counter one past the BRK and with A, X, Y, stack_pointer,
\* status and memory as the BRK found them; a run that has returned
\* executes nothing more.
C2_HaltsExactlyOnBrk ==
  /\ [](Stepped =>
         /\ (phase = "halted") <=> (prev.program_counter < MemSize /\ Fetched = \h00)
         /\ phase = "halted" =>
              /\ program_counter = prev.program_counter + 1
              /\ RegistersKept)
  /\ [][phase = "halted" => UNCHANGED vars]_vars

\* a run has executed an instruction and then returned on a BRK
C2_Witness ==
  /\ phase = "halted"
  /\ steps = 2
  /\ Fetched = \h00
  /\ register_x = \h80
  /\ program_counter = LoadAddress + 3

\* C3: a fetched byte that is not in the table ends the run in the
\* unrecognized-opcode panic with A, X, Y, stack_pointer, status and memory
\* as they were; the message carries the byte, the program counter (one
\* past the byte) and the flag byte; a run that has panicked executes
\* nothing more.
C3_UnrecognizedOpcodeIsFatal ==
  /\ []((Stepped /\ prev.program_counter < MemSize /\ Fetched \notin DOMAIN OPCODES_MAP) =>
         /\ phase = "panicked"
         /\ RegistersKept
         /\ panic_msg.kind = NotRecognized
         /\ panic_msg.code = Fetched
         /\ panic_msg.pc = prev.program_counter + 1
         /\ panic_msg.pc = program_counter
         /\ panic_msg.registers = prev.status)
  /\ [][phase = "panicked" => UNCHANGED vars]_vars

\* the second instruction of a run is the unknown byte 0xFF, met with a
\* non-zero accumulator
C3_Witness ==
  /\ phase = "panicked"
  /\ steps = 2
  /\ Fetched = \hFF
  /\ panic_msg.code = \hFF
  /\ register_a = \h7F

\* the opcode bytes some arm of the match names
DispatchCodes ==
  LET probe == [register_a |-> 0, register_x |-> 0, register_y |-> 0,
                status |-> 0, program_counter |-> 0, stack_pointer |-> 0,
                memory |-> << >>, overflow_checks |-> FALSE,
                fault |-> "", returned |-> FALSE, taken |-> FALSE]
  IN {k \in Bytes : dispatch(probe, k, "Immediate").fault # NotYetImplemented}

\* C4: no opcode byte that the match binds to a handler ends a run in the
\* unrecognized-opcode panic.
C4_HandledOpcodesAreInTable ==
  ~(phase = "panicked" /\ panic_msg.kind = NotRecognized /\ panic_msg.code \in DispatchCodes)

\* C5: ADC leaves register_a = (a + b + carry_in) mod 256, CARRY iff the sum
\* exceeds 255, OVERFLOW iff a and b have the same sign and the result has
\* the other one, ZERO and NEGATIVE from the new register_a.
C5_Adc ==
  (Completed /\ code = \h69) =>
    LET a == prev.register_a
        b == Operand1
        carry_in == IF contains(prev.status, CARRY) THEN 1 ELSE 0
        sum == a + b + carry_in
    IN /\ register_a = sum % 256
       /\ contains(status, CARRY) <=> sum > 255
       /\ contains(status, OVERFLOW) <=>
            ((a >= 128) = (b >= 128) /\ (register_a >= 128) # (a >= 128))
       /\ contains(status, ZERO) <=> register_a = 0
       /\ contains(status, NEGATIVE) <=> register_a >= 128
       /\ \A f \in {INTERRUPT_DISABLE, DECIMAL_MODE, BREAK, BREAK2} :
            contains(status, f) <=> contains(prev.status, f)

\* 0x7F + 0x01 with carry clear: 0x80, CARRY clear, OVERFLOW set
C5_Witness ==
  /\ Completed
  /\ code = \h69
  /\ prev.register_a = \h7F
  /\ Operand1 = \h01
  /\ ~contains(prev.status, CARRY)
  /\ register_a = \h80
  /\ ~contains(status, CARRY)
  /\ contains(status, OVERFLOW)

\* C6: SBC (0xE9) leaves register_a = (a - m - (1 - carry_in)) mod 256 with
\* CARRY set iff no borrow occurred.
C6_Sbc ==
  (Stepped /\ Fetched = \hE9 /\ prev.program_counter + 1 < MemSize) =>
    LET a == prev.register_a
        m == Operand1
        borrow == IF contains(prev.status, CARRY) THEN 0 ELSE 1
    IN /\ phase = "running"
       /\ register_a = (a + 256 - m - borrow) % 256
       /\ contains(status, CARRY) <=> a >= m + borrow

\* C7: a taken branch with displacement byte d at address q ends with
\* program_counter = (q + 1 + s) mod 65536, s being d read as a signed byte.
C7_BranchDisplacementIsSigned ==
  (Completed /\ code \in BranchCodes /\ branched) =>
    LET q == prev.program_counter + 1
        d == Operand1
        s == IF d < 128 THEN d ELSE d - 256
    IN program_counter = (q + 1 + s + 65536) % 65536

BranchCondition(k, s) ==
  CASE k = \h90 -> ~contains(s, CARRY)
    [] k = \hB0 -> contains(s, CARRY)
    [] k = \hF0 -> contains(s, ZERO)
    [] k = \hD0 -> ~contains(s, ZERO)
    [] k = \h30 -> contains(s, NEGATIVE)
    [] k = \h10 -> ~contains(s, NEGATIVE)
    [] k = \h50 -> ~contains(s, OVERFLOW)
    [] k = \h70 -> contains(s, OVERFLOW)

\* C8: a branch opcode runs the body of the branch iff its own flag
\* condition holds; not taken, it ends two bytes past the opcode; taken or
\* not, it changes no register, no flag, no memory byte and not the stack
\* pointer.
C8_BranchTakenIffFlag ==
  (Completed /\ code \in BranchCodes) =>
    /\ branched <=> BranchCondition(code, prev.status)
    /\ ~branched => program_counter = prev.program_counter + 2
    /\ RegistersKept

\* BVS met with OVERFLOW set and NEGATIVE clear has branched
C8_Witness ==
  /\ Completed
  /\ code = \h70
  /\ branched
  /\ contains(status, OVERFLOW)
  /\ ~contains(status, NEGATIVE)
  /\ program_counter # prev.program_counter + 2

\* C9: JMP absolute (0x4C) with operand bytes lo, hi ends with
\* program_counter = hi * 256 + lo.
C9_JmpAbsolute ==
  (Stepped /\ Fetched = \h4C /\ prev.program_counter + 2 < MemSize) =>
    /\ phase = "running"
    /\ program_counter = Operand2 * 256 + Operand1

\* C10: JMP indirect (0x6C) with pointer ptr ends with program_counter =
\* mem[ptr] + 256 * mem[ptr + 1], the high byte coming from mem[ptr & 0xFF00]
\* when the low byte of ptr is 0xFF.
C10_JmpIndirect ==
  (Stepped /\ Fetched = \h6C /\ prev.program_counter + 2 < MemSize) =>
    LET ptr == Operand2 * 256 + Operand1
        hi_at == IF ptr % 256 = 255 THEN ptr - 255 ELSE ptr + 1
    IN (ptr < MemSize /\ hi_at < MemSize) =>
         /\ phase = "running"
         /\ program_counter = Cell(prev.memory, ptr) + 256 * Cell(prev.memory, hi_at)

(***************************************************************************)
(* The stack instructions                                                  *)
(***************************************************************************)
\* the CPU when iteration i began; for i one past the last, the CPU now
State(i) == IF i <= Len(log) THEN log[i] ELSE Snapshot(Self)
\* the opcode iteration i fetched
FetchedAt(i) == Cell(log[i].memory, log[i].program_counter)
\* the stack cell n places above the stack pointer of CPU s, within page one
StackCell(s, n) == Cell(s.memory, STACK_AREA + ((s.stack_pointer + n) % 256))
\* the six flags other than BREAK and BREAK2
OtherFlags == {CARRY, ZERO, INTERRUPT_DISABLE, DECIMAL_MODE, OVERFLOW, NEGATIVE}

\* C11: a JSR at p with operand t pushes p + 2, high byte at 0x0100 + SP,
\* low byte one below it (within page one), lowers stack_pointer by 2
\* mod 256 and ends with program_counter = t; A, X, Y and the flags are
\* as before.
C11_JsrPushesLastByteAddress ==
  (Stepped /\ Fetched = \h20 /\ prev.program_counter + 2 < MemSize) =>
    /\ phase = "running"
    /\ Cell(memory, STACK_AREA + prev.stack_pointer) = (prev.program_counter + 2) \div 256
    /\ Cell(memory, STACK_AREA + ((prev.stack_pointer + 255) % 256))
         = (prev.program_counter + 2) % 256
    /\ stack_pointer = (prev.stack_pointer + 254) % 256
    /\ program_counter = Operand2 * 256 + Operand1
    /\ register_a = prev.register_a
    /\ register_x = prev.register_x
    /\ register_y = prev.register_y
    /\ status = prev.status

\* JSR $8080 from 0x8000 with the stack pointer at 0x00: 0x80 at 0x0100,
\* 0x02 at 0x01FF
C11_Witness ==
  /\ Completed
  /\ code = \h20
  /\ prev.program_counter = LoadAddress
  /\ prev.stack_pointer = \h00
  /\ program_counter = \h8080
  /\ stack_pointer = \hFE
  /\ Cell(memory, \h0100) = \h80
  /\ Cell(memory, \h01FF) = \h02

\* C12: when a JSR at p is followed by an RTS that finds the stack pointer
\* and the two return-address bytes as the JSR left them, the RTS ends with
\* program_counter = p + 3 and stack_pointer as it was before the JSR.
C12_RtsReturnsPastJsr ==
  \A i \in 1 .. Len(log) : \A j \in 1 .. Len(log) :
    ( /\ i < j
      /\ FetchedAt(i) = \h20
      /\ FetchedAt(j) = \h60
      /\ log[j].stack_pointer = log[i + 1].stack_pointer
      /\ StackCell(log[j], 1) = StackCell(log[i + 1], 1)
      /\ StackCell(log[j], 2) = StackCell(log[i + 1], 2) )
    => /\ j = Len(log) => phase = "running"
       /\ State(j + 1).program_counter = log[i].program_counter + 3
       /\ State(j + 1).stack_pointer = log[i].stack_pointer

\* JSR $8004 with the stack pointer at 0x00, a NOP in the subroutine, and
\* the RTS back to 0x8003
C12_Witness ==
  /\ Len(log) = 3
  /\ FetchedAt(1) = \h20
  /\ FetchedAt(2) = \hEA
  /\ FetchedAt(3) = \h60
  /\ log[1].stack_pointer = \h00
  /\ phase = "running"
  /\ program_counter = LoadAddress + 3
  /\ stack_pointer = \h00

\* C13: RTI pops one byte into status, BREAK cleared and BREAK2 set, the
\* other six flags as popped; then pops the program counter, low byte
\* first, and adds nothing to it; stack_pointer rises by 3 mod 256.
C13_Rti ==
  (Stepped /\ Fetched = \h40) =>
    /\ phase = "running"
    /\ ~contains(status, BREAK)
    /\ contains(status, BREAK2)
    /\ \A f \in OtherFlags : contains(status, f) <=> contains(StackCell(prev, 1), f)
    /\ program_counter = (StackCell(prev, 3) * 256) + StackCell(prev, 2)
    /\ stack_pointer = (prev.stack_pointer + 3) % 256

\* the stack pointer at 0x80, 0x95 0x34 0x12 above it: status 0xA5, the
\* program counter 0x1234, the stack pointer 0x83
C13_Witness ==
  /\ Completed
  /\ code = \h40
  /\ prev.stack_pointer = \h80
  /\ StackCell(prev, 1) = \h95
  /\ status = \hA5
  /\ program_counter = \h1234
  /\ stack_pointer = \h83

\* C14: PHP writes the flags with BREAK and BREAK2 both set at 0x0100 + SP
\* and lowers stack_pointer by 1 mod 256; status, A, X and Y are as before
\* and program_counter is one past the opcode.
C14_PhpPushesBothBreakBits ==
  (Stepped /\ Fetched = \h08) =>
    /\ phase = "running"
    /\ contains(StackCell(Snapshot(Self), 1), BREAK)
    /\ contains(StackCell(Snapshot(Self), 1), BREAK2)
    /\ \A f \in OtherFlags :
         contains(StackCell(Snapshot(Self), 1), f) <=> contains(prev.status, f)
    /\ Cell(memory, STACK_AREA + prev.stack_pointer) = StackCell(Snapshot(Self), 1)
    /\ stack_pointer = (prev.stack_pointer + 255) % 256
    /\ status = prev.status
    /\ register_a = prev.register_a
    /\ register_x = prev.register_x
    /\ register_y = prev.register_y
    /\ program_counter = prev.program_counter + 1

\* status 0xC3 pushed as 0xF3 at 0x0100, the stack pointer wrapping to 0xFF
C14_Witness ==
  /\ Completed
  /\ code = \h08
  /\ prev.status = \hC3
  /\ prev.stack_pointer = \h00
  /\ Cell(memory, \h0100) = \hF3
  /\ stack_pointer = \hFF
  /\ status = \hC3

\* C15: PHP followed at once by PLP leaves the six flags other than BREAK
\* and BREAK2 as they were, BREAK clear, BREAK2 set and stack_pointer
\* restored; a PLP of any byte b leaves status = (b AND 0xCF) OR 0x20.
C15_PhpPlp ==
  /\ \A i \in 1 .. Len(log) - 1 :
       (FetchedAt(i) = \h08 /\ FetchedAt(i + 1) = \h28) =>
         /\ i + 1 = Len(log) => phase = "running"
         /\ \A f \in OtherFlags :
              contains(State(i + 2).status, f) <=> contains(log[i].status, f)
         /\ ~contains(State(i + 2).status, BREAK)
         /\ contains(State(i + 2).status, BREAK2)
         /\ State(i + 2).stack_pointer = log[i].stack_pointer
  /\ (Stepped /\ Fetched = \h28) =>
       /\ phase = "running"
       /\ status = (StackCell(prev, 1) - (((StackCell(prev, 1) \div 16) % 4) * 16)) + 32

\* status 0xDF (BREAK set, BREAK2 clear) comes back from PHP PLP as 0xEF
C15_Witness ==
  /\ Len(log) = 2
  /\ FetchedAt(1) = \h08
  /\ FetchedAt(2) = \h28
  /\ log[1].status = \hDF
  /\ phase = "running"
  /\ status = \hEF
  /\ stack_pointer = log[1].stack_pointer

\* the opcodes of PHA, PHP, PLA, PLP, JSR, RTS, RTI
StackCodes == {\h48, \h08, \h68, \h28, \h20, \h60, \h40}
\* the addresses whose byte the last iteration changed
Written == {a \in DOMAIN memory \cup DOMAIN prev.memory : Cell(memory, a) # Cell(prev.memory, a)}

\* C16: a stack instruction changes no byte outside 0x0100..0x01FF; a push
\* (PHA, PHP) writes at 0x0100 + SP only and leaves SP - 1 mod 256; a pull
\* (PLA, PLP) leaves SP + 1 mod 256, reads 0x0100 + that and writes
\* nothing; both complete at every stack pointer, 0x00 and 0xFF included.
C16_StackStaysInPageOne ==
  (Stepped /\ Fetched \in StackCodes) =>
    /\ Written \subseteq STACK_AREA .. (STACK_AREA + \hFF)
    /\ Fetched \in {\h48, \h08} =>
         /\ phase = "running"
         /\ Written \subseteq {STACK_AREA + prev.stack_pointer}
         /\ stack_pointer = (prev.stack_pointer + 255) % 256
         /\ Fetched = \h48 => Cell(memory, STACK_AREA + prev.stack_pointer) = prev.register_a
    /\ Fetched \in {\h68, \h28} =>
         /\ phase = "running"
         /\ Written = {}
         /\ stack_pointer = (prev.stack_pointer + 1) % 256
         /\ Fetched = \h68 => register_a = StackCell(prev, 1)

\* PHA with the stack pointer at 0x00 writes 0x0100 and leaves 0xFF; the
\* PLA after it reads 0x0100 and leaves 0x00
C16_Witness ==
  /\ Len(log) = 2
  /\ FetchedAt(1) = \h48
  /\ FetchedAt(2) = \h68
  /\ log[1].stack_pointer = \h00
  /\ log[1].register_a = \h7F
  /\ log[2].stack_pointer = \hFF
  /\ Cell(log[2].memory, \h0100) = \h7F
  /\ phase = "running"
  /\ stack_pointer = \h00
  /\ register_a = \h7F

(***************************************************************************)
(* stack_push_u16 / stack_pop_u16, the flag helper, reset and load         *)
(***************************************************************************)
\* the two stack addresses stack_push_u16 used, starting at prev.stack_pointer
FirstPushed == STACK_AREA + prev.stack_pointer
SecondPushed == STACK_AREA + ((prev.stack_pointer + 255) % 256)

\* C17 as stated: the round trip returns v and restores stack_pointer, and
\* between the calls the high byte lies at the higher of the two stack
\* addresses, the low byte at the lower one, for every stack pointer.
C17_HighByteAtHigherAddress ==
  /\ phase = "popped" =>
       /\ call.ret = call.arg
       /\ stack_pointer = prev.stack_pointer
  /\ phase = "pushed" =>
       /\ Cell(memory, IF FirstPushed > SecondPushed THEN FirstPushed ELSE SecondPushed)
            = call.arg \div 256
       /\ Cell(memory, IF FirstPushed > SecondPushed THEN SecondPushed ELSE FirstPushed)
            = call.arg % 256

\* C17, amended: the round trip returns v and restores stack_pointer for
\* every v and stack pointer; between the calls the high byte lies at
\* 0x0100 + SP and the low byte at 0x0100 + ((SP - 1) mod 256), which is the
\* lower address unless SP = 0x00, where the low byte is at 0x01FF.
C17_PushPopU16RoundTrip ==
  /\ phase = "popped" =>
       /\ call.ret = call.arg
       /\ stack_pointer = prev.stack_pointer
  /\ phase = "pushed" =>
       /\ Cell(memory, FirstPushed) = call.arg \div 256
       /\ Cell(memory, SecondPushed) = call.arg % 256
       /\ stack_pointer = (prev.stack_pointer + 254) % 256
       /\ prev.stack_pointer # \h00 => SecondPushed = FirstPushed - 1
       /\ prev.stack_pointer = \h00 => (FirstPushed = \h0100 /\ SecondPushed = \h01FF)

\* 0x1234 pushed with the stack pointer at 0x00 and popped again
C17_Witness ==
  /\ phase = "popped"
  /\ call.arg = \h1234
  /\ call.ret = \h1234
  /\ prev.stack_pointer = \h00
  /\ stack_pointer = \h00
  /\ Cell(memory, \h0100) = \h12
  /\ Cell(memory, \h01FF) = \h34

\* C18: update_zero_and_negative_flags(x) sets ZERO iff x = 0 and NEGATIVE
\* iff bit 7 of x is set; the other six flags, the registers, the program
\* counter, the stack pointer and memory are as before.
C18_UpdateZeroAndNegative ==
  phase = "updated" =>
    /\ contains(status, ZERO) <=> call.arg = 0
    /\ contains(status, NEGATIVE) <=> call.arg >= 128
    /\ \A f \in {CARRY, OVERFLOW, INTERRUPT_DISABLE, DECIMAL_MODE, BREAK, BREAK2} :
         contains(status, f) <=> contains(prev.status, f)
    /\ register_a = prev.register_a
    /\ register_x = prev.register_x
    /\ register_y = prev.register_y
    /\ program_counter = prev.program_counter
    /\ stack_pointer = prev.stack_pointer
    /\ memory = prev.memory

\* x = 0x40 met with status 0xC3: ZERO and NEGATIVE cleared, the rest kept
C18_Witness ==
  /\ phase = "updated"
  /\ call.arg = \h40
  /\ prev.status = \hC3
  /\ status = \h41

\* C19: reset leaves A = X = Y = 0, stack_pointer = 0xFF, status with
\* exactly INTERRUPT_DISABLE and BREAK2 set, and program_counter the
\* little-endian word at 0xFFFC/0xFFFD; it changes no memory byte.
C19_Reset ==
  [][call'.fn = "reset" =>
       /\ register_a' = 0
       /\ register_x' = 0
       /\ register_y' = 0
       /\ stack_pointer' = \hFF
       /\ status' = INTERRUPT_DISABLE + BREAK2
       /\ program_counter' = Cell(memory, \hFFFC) + (256 * Cell(memory, \hFFFD))
       /\ memory' = memory]_vars

\* a reset of a CPU with A, X, Y, the stack pointer and the flags set by
\* the host and 0x1234 in the vector
C19_Witness ==
  /\ call.fn = "reset"
  /\ prev.register_a = \h7F
  /\ prev.register_x = \hFF
  /\ prev.stack_pointer = \h00
  /\ prev.status = \hE7
  /\ prev.program_counter = \hFFFF
  /\ register_a = 0
  /\ stack_pointer = \hFF
  /\ status = \h24
  /\ program_counter = \h1234
  /\ Cell(memory, \hFFFC) = \h34

\* C20: load(program) leaves program[i] at load address + i, the load
\* address little-endian at 0xFFFC/0xFFFD, every other byte, the registers
\* and the flags as they were; a reset that follows sets program_counter
\* to the load address.
C20_Load ==
  /\ [][(call'.fn = "load" /\ call # call') =>
          /\ \A a \in DOMAIN memory \cup DOMAIN memory'
                        \cup (LoadAddress .. (LoadAddress + Len(call'.arg) - 1))
                        \cup {ResetVector, ResetVector + 1} :
               Cell(memory', a) =
                 IF a >= LoadAddress /\ a < LoadAddress + Len(call'.arg)
                 THEN call'.arg[(a - LoadAddress) + 1]
                 ELSE IF a = ResetVector THEN LoadAddress % 256
                 ELSE IF a = ResetVector + 1 THEN LoadAddress \div 256
                 ELSE Cell(memory, a)
          /\ register_a' = register_a
          /\ register_x' = register_x
          /\ register_y' = register_y
          /\ status' = status
          /\ stack_pointer' = stack_pointer
          /\ program_counter' = program_counter]_vars
  /\ [][(call.fn = "load" /\ call'.fn = "reset") => program_counter' = LoadAddress]_vars

\* a program loaded over bytes the host had written, and the reset after it
C20_Witness ==
  /\ call.fn = "reset"
  /\ program_counter = LoadAddress
  /\ Cell(prev.memory, \hFFFC) = \h34
  /\ Cell(memory, \hFFFC) = \h00
  /\ Cell(memory, \hFFFD) = \h80
  /\ Cell(memory, \h8000) = \hA9
  /\ Cell(memory, \h8001) = \h7F
  /\ Cell(memory, \h8002) = \h00
  /\ Cell(memory, \h8003) = \hBB
  /\ Cell(memory, \h0000) = \h33
  /\ Cell(memory, \hFFFE) = \h44

(***************************************************************************)
(* C21 .. C30                                                              *)
(***************************************************************************)
\* the CPU as new() leaves it but for its memory
FreshRegisters ==
  /\ register_a = 0
  /\ register_x = 0
  /\ register_y = 0
  /\ stack_pointer = STACK_RESET
  /\ status = INTERRUPT_DISABLE + BREAK2

\* C21: a CPU fresh from new() has A = X = Y = 0, the flags reset leaves
\* (INTERRUPT_DISABLE and BREAK2) and program_counter at the address where
\* load places the program; so after load on a fresh CPU the next fetch is
\* program[0], reset changes nothing, and run ends in the same state with
\* and without the reset.
C21_FreshCpuRunsWithoutReset ==
  /\ phase = "new" =>
       /\ FreshRegisters
       /\ program_counter = LoadAddress
       /\ memory = << >>
  /\ (phase = "loaded" /\ FreshRegisters) =>
       /\ program_counter = LoadAddress
       /\ Cell(memory, program_counter) = call.arg[1]
       /\ Snapshot(reset(Self)) = Snapshot(Self)
       /\ run(Self, MaxSteps) = run(reset(Self), MaxSteps)

\* LDA #$7F; BRK loaded on a fresh CPU and run without reset: A = 0x7F at
\* the halt
C21_Witness ==
  /\ phase = "halted"
  /\ call.fn = "load"
  /\ call.arg = <<\hA9, \h7F, \h00>>
  /\ log[1].register_a = 0
  /\ log[1].register_x = 0
  /\ log[1].register_y = 0
  /\ log[1].stack_pointer = STACK_RESET
  /\ log[1].status = \h24
  /\ log[1].program_counter = LoadAddress
  /\ register_a = \h7F
  /\ run(reset(log[1] @@ fresh), MaxSteps).cpu.register_a = \h7F

\* C22: load, reset and run of LDA #v; TAX; INX; BRK halts normally with
\* register_a = v, register_x = (v + 1) mod 256 and ZERO/NEGATIVE from
\* register_x, so 0xC1 for v = 0xC0; INX; INX; BRK run from
\* register_x = 0xFF leaves register_x = 1.
C22_LdaTaxInxBrk ==
  /\ (call.fn = "load_reset_and_run" /\ phase # "calling") =>
       LET v == call.arg[2]
       IN /\ phase = "halted"
          /\ register_a = v
          /\ register_x = (v + 1) % 256
          /\ contains(status, ZERO) <=> register_x = 0
          /\ contains(status, NEGATIVE) <=> register_x >= 128
          /\ v = \hC0 => register_x = \hC1
  /\ (call.arg = <<\hE8, \hE8, \h00>> /\ phase # "calling") =>
       /\ phase = "halted"
       /\ register_x = (prev.register_x + 2) % 256
       /\ prev.register_x = \hFF => register_x = 1

\* the run of [0xA9, 0xC0, 0xAA, 0xE8, 0x00] on a CPU whose registers the
\* host had set before, halted with X = 0xC1 and NEGATIVE set
C22_Witness ==
  /\ call = Call("load_reset_and_run", <<\hA9, \hC0, \hAA, \hE8, \h00>>, << >>)
  /\ phase = "halted"
  /\ prev.register_a = \h7F
  /\ prev.register_x = \hFF
  /\ register_a = \hC0
  /\ register_x = \hC1
  /\ contains(status, NEGATIVE)
  /\ ~contains(status, ZERO)
  /\ program_counter = \h8005

\* the shifts, rotates, INC and DEC: bits 2..4 of the opcode name the
\* target, 2 the accumulator, 1 zero page, 5 zero page,X, 3 absolute and
\* 7 absolute,X
TargetBits(k) == (k \div 4) % 8
OnAccumulator(k) == TargetBits(k) = 2
TargetAddress(k) ==
  CASE TargetBits(k) = 1 -> Operand1
    [] TargetBits(k) = 5 -> (Operand1 + prev.register_x) % 256
    [] TargetBits(k) = 3 -> Operand1 + (256 * Operand2)
    [] TargetBits(k) = 7 -> (Operand1 + (256 * Operand2) + prev.register_x) % 65536
\* the target before and after the instruction
TargetBefore(k) ==
  IF OnAccumulator(k) THEN prev.register_a ELSE Cell(prev.memory, TargetAddress(k))
TargetAfter(k) ==
  IF OnAccumulator(k) THEN register_a ELSE Cell(memory, TargetAddress(k))

RolCodes == {\h2A, \h26, \h36, \h2E, \h3E}
RorCodes == {\h6A, \h66, \h76, \h6E, \h7E}

\* C23: ROL (ROR) replaces its target, register A for 0x2A (0x6A) and the
\* addressed memory byte for the other opcodes, by the old value rotated
\* left (right) by one bit within 8 bits, whatever CARRY was, and sets
\* CARRY to bit 7 (bit 0) of the old value.
C23_RotateTarget ==
  (Stepped /\ Fetched \in RolCodes \cup RorCodes) =>
    LET old == TargetBefore(Fetched)
    IN /\ phase = "running"
       /\ Fetched \in RolCodes =>
            /\ TargetAfter(Fetched) = ((old * 2) % 256) + (old \div 128)
            /\ contains(status, CARRY) <=> old >= 128
       /\ Fetched \in RorCodes =>
            /\ TargetAfter(Fetched) = (old \div 2) + ((old % 2) * 128)
            /\ contains(status, CARRY) <=> old % 2 = 1

AslCodes == {\h0A, \h06, \h16, \h0E, \h1E}
LsrCodes == {\h4A, \h46, \h56, \h4E, \h5E}

\* C24: ASL and LSR shift their target by one bit with a zero shifted in,
\* set CARRY to bit 7 (ASL) or bit 0 (LSR) of the old value and
\* ZERO/NEGATIVE from the result; 0x0A and 0x4A shift register A, leave
\* memory as it was, advance the program counter by 1 and complete, and
\* the memory opcodes write the addressed byte and leave register A as it
\* was.
C24_ShiftTarget ==
  (Stepped /\ Fetched \in AslCodes \cup LsrCodes) =>
    LET old == TargetBefore(Fetched)
        result == IF Fetched \in AslCodes THEN (old * 2) % 256 ELSE old \div 2
    IN /\ phase = "running"
       /\ TargetAfter(Fetched) = result
       /\ contains(status, CARRY) <=>
            IF Fetched \in AslCodes THEN old >= 128 ELSE old % 2 = 1
       /\ contains(status, ZERO) <=> result = 0
       /\ contains(status, NEGATIVE) <=> result >= 128
       /\ IF OnAccumulator(Fetched)
          THEN /\ memory = prev.memory
               /\ program_counter = prev.program_counter + 1
          ELSE register_a = prev.register_a

\* the register CMP, CPX and CPY compare with
Reference(k) ==
  CASE k = \hC9 -> prev.register_a
    [] k = \hE0 -> prev.register_x
    [] k = \hC0 -> prev.register_y

C26_BitTestsMemoryOperand ==
  (Stepped /\ Fetched \in {\h24, \h2C}) =>
    LET m == IF Fetched = \h24
             THEN Cell(prev.memory, Operand1)
             ELSE Cell(prev.memory, Operand1 + (256 * Operand2))
    IN /\ phase = "running"
       /\ contains(status, ZERO) <=> bitand(prev.register_a, m) = 0
       /\ contains(status, OVERFLOW) <=> (m \div 64) % 2 = 1
       /\ contains(status, NEGATIVE) <=> m >= 128
       /\ contains(status, CARRY) <=> contains(prev.status, CARRY)
       /\ register_a = prev.register_a
       /\ memory = prev.memory

\* C27: INC and DEC replace the addressed byte m by (m + 1) mod 256 and
\* (m - 1) mod 256, INX, INY, DEX, DEY do the same to register X or Y,
\* 0xFF wrapping to 0x00 and 0x00 to 0xFF; ZERO/NEGATIVE come from the new
\* value, and no other register, no other memory byte, neither CARRY nor
\* OVERFLOW changes.
C27_IncDecWrap ==
  (call.fn = "load_and_run" /\ call.arg # <<\hE8, \hE8, \h00>> /\ phase # "calling") =>
    LET k == call.arg[1]
        up == k \in {\hE6, \hF6, \hEE, \hFE, \hE8, \hC8}
        loaded == load([memory |-> prev.memory, fault |-> "", overflow_checks |-> TRUE],
                       call.arg).memory
        addr == CASE TargetBits(k) = 1 -> call.arg[2]
                  [] TargetBits(k) = 5 -> (call.arg[2] + prev.register_x) % 256
                  [] TargetBits(k) = 3 -> call.arg[2] + (256 * call.arg[3])
                  [] TargetBits(k) = 7 ->
                       (call.arg[2] + (256 * call.arg[3]) + prev.register_x) % 65536
                  [] OTHER -> 0
        old == CASE k \in {\hE8, \hCA} -> prev.register_x
                 [] k \in {\hC8, \h88} -> prev.register_y
                 [] OTHER -> Cell(loaded, addr)
        value == IF up THEN (old + 1) % 256 ELSE (old + 255) % 256
    IN /\ phase = "halted"
       /\ register_x = IF k \in {\hE8, \hCA} THEN value ELSE prev.register_x
       /\ register_y = IF k \in {\hC8, \h88} THEN value ELSE prev.register_y
       /\ register_a = prev.register_a
       /\ stack_pointer = prev.stack_pointer
       /\ IF TargetBits(k) = 2
          THEN memory = loaded
          ELSE \A a \in DOMAIN memory \cup DOMAIN loaded \cup {addr} :
                 Cell(memory, a) = IF a = addr THEN value ELSE Cell(loaded, a)
       /\ contains(status, ZERO) <=> value = 0
       /\ contains(status, NEGATIVE) <=> value >= 128
       /\ \A f \in {CARRY, OVERFLOW, INTERRUPT_DISABLE, DECIMAL_MODE, BREAK, BREAK2} :
            contains(status, f) <=> contains(prev.status, f)

\* INC $1234,X with register_x = 0xFF and 0xFF at 0x1333: the byte wraps to
\* 0x00, ZERO is set, NEGATIVE cleared, CARRY and OVERFLOW stay set
C27_Witness ==
  /\ call = Call("load_and_run", <<\hFE, \h34, \h12, \h00>>, << >>)
  /\ phase = "halted"
  /\ prev.register_x = \hFF
  /\ Cell(prev.memory, \h1333) = \hFF
  /\ prev.status = \hE7
  /\ Cell(memory, \h1333) = \h00
  /\ status = \h67
  /\ register_x = \hFF

\* C28: for every address in 0x0000 .. 0xFFFF, 0xFFFF included, mem_write
\* followed by mem_read of that address succeeds and returns the written
\* byte, and no other address changes.
C28_MemWriteThenRead ==
  /\ (call.fn = "mem_write" /\ phase # "calling") =>
       /\ phase = "written"
       /\ \A a \in DOMAIN memory \cup DOMAIN prev.memory \cup {call.arg[1]} :
            Cell(memory, a) = IF a = call.arg[1] THEN call.arg[2] ELSE Cell(prev.memory, a)
  /\ call.fn = "mem_read" =>
       /\ phase = "read"
       /\ call.ret = call.arg[2]

\* C29: for every pos in 0x0000 .. 0xFFFE and every 16-bit v,
\* mem_write_u16(pos, v) stores the low byte of v at pos and the high byte
\* at pos + 1 and touches no other address, and mem_read_u16(pos) then
\* returns v.
C29_WriteReadU16 ==
  /\ (call.fn = "mem_write_u16" /\ phase # "calling" /\ call.arg[1] <= \hFFFE) =>
       /\ phase = "written"
       /\ \A a \in DOMAIN memory \cup DOMAIN prev.memory \cup {call.arg[1], call.arg[1] + 1} :
            Cell(memory, a) =
              IF a = call.arg[1] THEN call.arg[2] % 256
              ELSE IF a = call.arg[1] + 1 THEN call.arg[2] \div 256
              ELSE Cell(prev.memory, a)
  /\ (call.fn = "mem_read_u16" /\ call.arg[1] <= \hFFFE) =>
       /\ phase = "read"
       /\ call.ret = call.arg[2]

\* C30: the callback is invoked once for every instruction that completes,
\* in execution order, and is given the CPU with that instruction's
\* effects and its program-counter advance in place, which is the CPU the
\* next fetch starts from; a run that halts on BRK after n instructions has
\* made n invocations, none of them for the BRK.
C30_CallbackOncePerInstruction ==
  /\ Len(callbacks) = IF phase \in {"halted", "panicked"} THEN steps - 1 ELSE steps
  /\ \A i \in 1 .. Len(callbacks) : callbacks[i] = State(i + 1)
  /\ phase = "halted" =>
       /\ Fetched = \h00
       /\ Len(callbacks) = Len(log) - 1
       /\ \A i \in 1 .. Len(callbacks) : FetchedAt(i) # \h00

\* LDA #$7F; BRK: one invocation, with A = 0x7F and the program counter on
\* the BRK, and none for the BRK
C30_Witness ==
  /\ phase = "halted"
  /\ call.arg = <<\hA9, \h7F, \h00>>
  /\ steps = 2
  /\ Len(callbacks) = 1
  /\ callbacks[1].register_a = \h7F
  /\ callbacks[1].program_counter = \h8002
  /\ log[1].register_a = \h00
  /\ program_counter = \h8003

(***************************************************************************)
(* C31 .. C40                                                              *)
(***************************************************************************)
\* a snapshot of the CPU as `self`
AsSelf(s) ==
  [register_a |-> s.register_a, register_x |-> s.register_x,
   register_y |-> s.register_y, status |-> s.status,
   program_counter |-> s.program_counter, stack_pointer |-> s.stack_pointer,
   memory |-> s.memory, overflow_checks |-> overflow_checks,
   fault |-> "", returned |-> FALSE, taken |-> FALSE]
\* the CPU the run began with
Started == AsSelf(log[1])

\* C31: whatever the callback does, the CPU at the next fetch is the CPU
\* the completed instruction left, so after any number of iterations
\* run_with_callback(f) has executed what run() executes and is in the
\* state run() is in.
C31_CallbackCannotInfluence ==
  (call.fn = "run_with_callback" /\ Stepped) =>
    /\ \A i \in 1 .. Len(callbacks) : State(i + 1) = callbacks[i]
    /\ Snapshot(Self) = Snapshot(run(Started, steps).cpu)

OperandByte == Cell(memory, program_counter)
OperandWord == Cell(memory, program_counter) + (256 * Cell(memory, program_counter + 1))

\* C35: ZeroPage_X and ZeroPage_Y resolve to ((byte at PC) + register_x or
\* register_y) mod 256, inside 0x0000 .. 0x00FF; Absolute_X and Absolute_Y
\* resolve to ((16-bit value at PC) + register) mod 65536, which may lie in
\* another page; the resolution changes no register, flag, program counter
\* or memory byte.
C35_IndexedAddresses ==
  (phase = "resolved") =>
    /\ call.arg = "ZeroPage_X" =>
         /\ call.ret = (OperandByte + register_x) % 256
         /\ call.ret \in 0 .. 255
    /\ call.arg = "ZeroPage_Y" =>
         /\ call.ret = (OperandByte + register_y) % 256
         /\ call.ret \in 0 .. 255
    /\ call.arg = "Absolute_X" => call.ret = (OperandWord + register_x) % 65536
    /\ call.arg = "Absolute_Y" => call.ret = (OperandWord + register_y) % 65536
    /\ Snapshot(Self) = prev

\* 0xFF + 0x02 in ZeroPage_X stays in the zero page
C35_Witness ==
  /\ phase = "resolved"
  /\ call.arg = "ZeroPage_X"
  /\ OperandByte = \hFF
  /\ register_x = \h02
  /\ call.ret = \h01

\* C36: Indirect_X reads the low byte of its pointer at
\* p = (operand + register_x) mod 256 and the high byte at (p + 1) mod 256
\* and resolves to that value; Indirect_Y reads the low byte at the operand
\* address b and the high byte at (b + 1) mod 256 and resolves to that
\* value plus register_y mod 65536; for p or b = 0xFF the high byte is the
\* one at 0x0000.
C36_IndirectPointersInZeroPage ==
  (phase = "resolved") =>
    /\ call.arg = "Indirect_X" =>
         LET p == (OperandByte + register_x) % 256
         IN call.ret = Cell(memory, p) + (256 * Cell(memory, (p + 1) % 256))
    /\ call.arg = "Indirect_Y" =>
         LET b == OperandByte
         IN call.ret =
              (Cell(memory, b) + (256 * Cell(memory, (b + 1) % 256)) + register_y) % 65536

\* Indirect_Y with operand 0xFF: low byte 0x44 from 0x00FF, high byte 0x11
\* from 0x0000 and not 0x99 from 0x0100, plus register_y = 0x55
C36_Witness ==
  /\ phase = "resolved"
  /\ call.arg = "Indirect_Y"
  /\ OperandByte = \hFF
  /\ Cell(memory, \h00FF) = \h44
  /\ Cell(memory, \h0000) = \h11
  /\ Cell(memory, \h0100) = \h99
  /\ register_y = \h55
  /\ call.ret = \h1199

\* C33: no opcode of the table, in any CPU state, ends in the panic of
\* get_operand_address for NoneAddressing.
C33_NoAddressingContractFailure ==
  (Stepped /\ Fetched \in DOMAIN OPCODES_MAP) =>
    ~(phase = "panicked" /\ panic_msg.kind = NotSupported)

\* the CPU the last iteration handed to its handler: the opcode fetched and
\* the program counter incremented
Dispatched == [AsSelf(prev) EXCEPT !.program_counter = (@ + 1) % 65536]

\* C34: when a taken branch, JMP, JSR, RTS or RTI has set the program
\* counter, the iteration ends with the program counter the handler set,
\* also when that is the address right after the opcode byte; the loop
\* adds no operand-skipping advance to it.
C34_RedirectIsNotAdvanced ==
  (Completed /\ (code \in {\h4C, \h20, \h60, \h40} \/ (code \in BranchCodes /\ branched))) =>
    program_counter = dispatch(Dispatched, code, OPCODES_MAP[code].mode).program_counter

\* JSR $8001 at 0x8000: the target is the address right after the opcode
\* byte, and the iteration ends there
C34_Witness ==
  /\ Completed
  /\ code = \h20
  /\ prev.program_counter = \h8000
  /\ Operand1 = \h01
  /\ Operand2 = \h80
  /\ program_counter_state = \h8001
  /\ program_counter = \h8001

\* the status has BREAK2 set and BREAK clear, as new() and reset() leave it
WellFormed(s) == contains(s, BREAK2) /\ ~contains(s, BREAK)

\* the opcodes of SED, CLD, SEI, CLI, PLP and RTI
ModeFlagCodes == {\hF8, \hD8, \h78, \h58, \h28, \h40}

\* C37: started with the status of new() or reset(), after every executed
\* instruction the status register has BREAK2 set and BREAK clear, and
\* DECIMAL_MODE and INTERRUPT_DISABLE differ from before the instruction
\* only when it was SED, CLD, SEI, CLI, PLP or RTI.
C37_BreakBitsInvariant ==
  (Stepped /\ WellFormed(log[1].status)) =>
    /\ WellFormed(status)
    /\ code \notin ModeFlagCodes =>
         /\ contains(status, DECIMAL_MODE) = contains(prev.status, DECIMAL_MODE)
         /\ contains(status, INTERRUPT_DISABLE) = contains(prev.status, INTERRUPT_DISABLE)

\* RTI has popped a status byte whose BREAK2 bit is clear, and the register
\* has BREAK2 set
C37_Witness ==
  /\ Completed
  /\ code = \h40
  /\ WellFormed(prev.status)
  /\ ~contains(Cell(prev.memory, STACK_AREA + wrapping_add(prev.stack_pointer, 1, U8)), BREAK2)
  /\ contains(status, BREAK2)

StaCodes == {\h85, \h95, \h8D, \h9D, \h99, \h81, \h91}
StxCodes == {\h86, \h96, \h8E}
StyCodes == {\h84, \h94, \h8C}

\* the register a store instruction writes
StoredRegister(k) ==
  IF k \in StaCodes THEN prev.register_a
  ELSE IF k \in StxCodes THEN prev.register_x ELSE prev.register_y

\* the effective address of the last iteration's operand
EffectiveAddress == get_operand_address(Dispatched, OPCODES_MAP[code].mode).val

\* C38: STA, STX and STY leave their register at the effective address and
\* change no other byte, no register, no flag and not the stack pointer;
\* PHA changes only the byte at 0x0100 + SP and the stack pointer; TXS
\* changes only the stack pointer, ZERO and NEGATIVE included in what stays.
C38_StoreFrame ==
  /\ (Stepped /\ Fetched \in StaCodes \cup StxCodes \cup StyCodes) =>
       /\ register_a = prev.register_a
       /\ register_x = prev.register_x
       /\ register_y = prev.register_y
       /\ status = prev.status
       /\ stack_pointer = prev.stack_pointer
       /\ Completed =>
            /\ Written \subseteq {EffectiveAddress}
            /\ Cell(memory, EffectiveAddress) = StoredRegister(code)
       /\ ~Completed => memory = prev.memory
  /\ (Completed /\ code = \h48) =>
       /\ register_a = prev.register_a
       /\ register_x = prev.register_x
       /\ register_y = prev.register_y
       /\ status = prev.status
       /\ Written \subseteq {STACK_AREA + prev.stack_pointer}
       /\ Cell(memory, STACK_AREA + prev.stack_pointer) = prev.register_a
       /\ stack_pointer = wrapping_sub(prev.stack_pointer, 1, U8)
  /\ (Completed /\ code = \h9A) =>
       /\ register_a = prev.register_a
       /\ register_x = prev.register_x
       /\ register_y = prev.register_y
       /\ status = prev.status
       /\ memory = prev.memory
       /\ stack_pointer = prev.register_x

\* STA has stored a negative accumulator over a different byte, and
\* NEGATIVE is still clear
C38_Witness ==
  /\ Completed
  /\ code \in StaCodes
  /\ register_a >= \h80
  /\ Written = {EffectiveAddress}
  /\ ~contains(status, NEGATIVE)

\* the addresses at which the instructions of a program begin, the closing
\* BRK included, by the len of the table
RECURSIVE boundaries(_, _)
boundaries(program, i) ==
  IF i > Len(program) \/ program[i] = \h00 THEN <<LoadAddress + i - 1>>
  ELSE <<LoadAddress + i - 1>> \o boundaries(program, i + OPCODES_MAP[program[i]].len)

\* the run has halted at the closing BRK after fetching at every boundary
\* of the program in turn, once each
HaltedInOrder ==
  /\ phase = "halted"
  /\ [i \in DOMAIN log |-> log[i].program_counter] = boundaries(call.arg, 1)

\* C39: a loaded program of table instructions without control flow,
\* closed by 0x00 at the next instruction boundary, eventually halts at
\* that BRK having executed its instructions in address order, once each.
C39_StraightLineHalts == (phase = "loaded") ~> HaltedInOrder

\* what the reference CPU makes of the state the last iteration began with
ReferenceStep == ref_loop_iteration(AsSelf(prev))

\* C40: from equal states, one iteration on a branch opcode or on SBC
\* leaves this CPU and the reference CPU in equal states: both fail or
\* neither, and registers, flags, program counter, stack pointer and
\* memory agree.
C40_StepEquivalent ==
  (Stepped /\ Fetched \in ReferenceCodes) =>
    /\ (ReferenceStep.fault # "") = (phase = "panicked")
    /\ ReferenceStep.fault = "" => Snapshot(Self) = Snapshot(ReferenceStep)
====
